---------------------------- MODULE Spec2Model ----------------------------
(***************************************************************************)
(* A model of the DV-Taskmanager front end: the Dashboard / My Tasks task  *)
(* categorisation and filter tiles, Dashboard task creation with           *)
(* attachments, the Employees page chat thread, and the Dashboard presence *)
(* heartbeat.  Each page is a state machine over its React state and the   *)
(* backend tables it reads and writes; every await is a step boundary.     *)
(*                                                                         *)
(* Time is counted in whole hours since the epoch (UTC).  A date-only      *)
(* string "YYYY-MM-DD" is modelled by its day number D; the string that    *)
(* does not parse as a date is InvalidDate.                                *)
(***************************************************************************)
EXTENDS Integers, Sequences, FiniteSets, TLC

VARIABLES
    \* ---- Dashboard / My Tasks: categorisation and filter tiles
    now,            \* the client's clock: the instant new Date() returns
    tz,             \* the client's UTC offset in hours (local = UTC + tz)
    currentPage,    \* App.currentPage: which page is mounted
    tasks,          \* useState<Task[]>: the loaded task list
    activeFilter,   \* useState<'all'|'today'|'next'|'overdue'>
    lastClick,      \* history: the last filter control the user clicked
    reclicked,      \* history: that click hit the tile that was already active
    \* ---- Dashboard: task creation with attachments
    authUser,       \* the session: the user supabase.auth.getUser() returns
    newTask,        \* useState: the 'Assign New Task' form
    attachments,    \* useState<Attachment[]>: the staged attachments
    batches,        \* handleFileUpload calls whose FileReaders are running
    addTask,        \* the handleAddTask invocation in progress
    db_tasks,       \* table tasks
    db_task_attachments,    \* table task_attachments
    consoleError,   \* the last message console.error was called with
    \* ---- Employees page: roster and chat thread
    currentUserId,  \* useState<string>: '' until checkAuth has resolved
    teamMembers,    \* useState<UserPresence[]>: the roster
    selectedUser,   \* useState<UserPresence | null>: its user_id, or NoUser
    showChat,       \* useState<boolean>
    messages,       \* useState<ChatMessage[]>: the displayed thread
    newMessage,     \* useState<string>: the message input
    chatPoll,       \* the chat effect's 3-second interval and its closure
    loads,          \* the loadMessages calls in flight
    send,           \* the handleSendMessage invocation in progress
    chat_messages,  \* table chat_messages
    \* ---- Dashboard: presence
    documentHidden, \* document.hidden
    checkAuth,      \* how far the Dashboard's checkAuth has run
    presenceCalls,  \* the presence writes in progress
    ticks,          \* history: how often the 30-second interval has fired
    logout,         \* how far handleLogout has run
    user_presence,  \* table user_presence
    \* ---- Dashboard and Employees page: loading the roster
    dashTeamMembers,    \* the Dashboard's useState<UserPresence[]>
    rosterCalls,    \* the loadTeamMembers calls in progress
    rosterTicks,    \* history: how often the 5-second interval has fired
    rosterAuth,     \* how far the Employees page's checkAuth has run
    \* ---- Calendar page
    calAuth,        \* how far the Calendar's checkAuth has run
    calUserId,      \* the Calendar's currentUserId
    currentDate,    \* useState(new Date()): the displayed month, as its number,
                    \* or in SpecMonth as the date [year, month, date]
    events,         \* useState<CalendarEvent[]>
    showModal,      \* useState<boolean>
    selectedDate,   \* useState<Date | null>: its instant, or NoDate
    newEvent,       \* useState: the 'Add Event' form
    addEvent,       \* the handleAddEvent invocation in progress
    calendar_events,    \* table calendar_events
    summerFrom,     \* the client's zone: the first day whose midnight is in
                    \* summer time (offset tz + 1), or NoDate in a zone without
    \* ---- Settings page
    settingsAuth,   \* how far the Settings page's checkAuth has run
    settingsUserId, \* the Settings page's currentUserId
    settings,       \* useState<UserSettings>: the displayed toggles
    newPassword,    \* useState<string>
    confirmPassword,    \* useState<string>
    message,        \* useState<{type, text} | null>
    settingsCalls,  \* the updateSettings upserts in flight
    lastUpsert,     \* history: the last upsert that returned, and how
    pwCall,         \* the updatePassword invocation in progress
    user_settings,  \* table user_settings
    password,       \* the auth service's password of the signed-in user
    \* ---- My Tasks page
    myTasksAuth,    \* how far the My Tasks page's checkAuth has run
    myUserId        \* the My Tasks page's currentUserId

filterVars == <<now, tz, currentPage, tasks, activeFilter, lastClick, reclicked>>
taskVars == <<authUser, newTask, attachments, batches, addTask, db_tasks,
              db_task_attachments, consoleError>>

chatVars == <<currentUserId, teamMembers, selectedUser, showChat, messages,
              newMessage, chatPoll, loads, send, chat_messages>>

presVars == <<documentHidden, checkAuth, presenceCalls, ticks, logout, user_presence>>

rosterVars == <<dashTeamMembers, rosterCalls, rosterTicks, rosterAuth>>

calVars == <<calAuth, calUserId, currentDate, events, showModal, selectedDate,
             newEvent, addEvent, calendar_events, summerFrom>>

setVars == <<settingsAuth, settingsUserId, settings, newPassword,
             confirmPassword, message, settingsCalls, lastUpsert, pwCall,
             user_settings, password>>

mineVars == <<myTasksAuth, myUserId>>

pageVars == <<calVars, setVars, mineVars>>

vars == <<filterVars, taskVars, chatVars, presVars, rosterVars, pageVars>>

\* what the filter actions, and the task creation actions, leave alone
filterFrame == <<taskVars, chatVars, presVars, rosterVars, pageVars>>
taskFrame == <<now, tz, currentPage, activeFilter, lastClick, reclicked, chatVars,
               presVars, rosterVars, pageVars>>
chatFrame == <<filterVars, authUser, newTask, attachments, batches, addTask,
               db_tasks, db_task_attachments, presVars, rosterVars, pageVars>>
presFrame == <<tz, activeFilter, lastClick, reclicked, newTask, attachments,
               batches, addTask, db_tasks, db_task_attachments, chatVars,
               rosterTicks, rosterAuth, pageVars>>
rosterFrame == <<now, tz, tasks, activeFilter, lastClick, reclicked, newTask,
                 attachments, batches, addTask, db_tasks, db_task_attachments,
                 consoleError, selectedUser, showChat, messages, newMessage,
                 loads, send, chat_messages, documentHidden, presenceCalls,
                 ticks, logout, pageVars>>
\* what the Calendar, Settings and My Tasks actions leave alone
calFrame == <<now, summerFrom, tasks, activeFilter, lastClick, reclicked, newTask,
              attachments, batches, addTask, db_tasks, db_task_attachments,
              chatVars, presVars, rosterVars, setVars, mineVars>>
setFrame == <<now, tz, tasks, activeFilter, lastClick, reclicked, newTask,
              attachments, batches, addTask, db_tasks, db_task_attachments,
              chatVars, presVars, rosterVars, calVars, mineVars>>
mineFrame == <<now, tz, activeFilter, lastClick, reclicked, newTask,
               attachments, batches, addTask, db_tasks, db_task_attachments,
               chatVars, presVars, rosterVars, calVars, setVars>>

-----------------------------------------------------------------------------
(* Bounds of the model *)

MaxDay == 2         \* due dates range over the days 0..MaxDay
MaxTasks == 2       \* at most this many tasks are loaded
WestMax == 12       \* UTC offsets range over -WestMax..EastMax hours
EastMax == 14

HoursPerDay == 24

NaN == -1000000     \* the time value of an Invalid Date
InvalidDate == -1   \* a due_date string that new Date() cannot parse

Days == 0..MaxDay
Offsets == (0 - WestMax)..EastMax
\* the instants of the middle day of the window, so that every relation
\* between a due date and the local current date occurs
Instants == (HoursPerDay * 1)..(HoursPerDay * 2 - 1)

Tiles == {"today", "next", "overdue"}
Filters == Tiles \cup {"all"}
TaskPages == {"dashboard", "myTasks"}

-----------------------------------------------------------------------------
(* JavaScript Date *)

\* new Date(s) for a date-only string: ECMAScript reads it as UTC midnight
ParseDate(s) == IF s = InvalidDate THEN NaN ELSE s * HoursPerDay

\* d.setHours(0,0,0,0): midnight, in the client's zone, of d's local date
setHours0(t) ==
    IF t = NaN THEN NaN
    ELSE ((t + tz) \div HoursPerDay) * HoursPerDay - tz

\* comparisons with NaN are false
JsLess(a, b) == a # NaN /\ b # NaN /\ a < b
JsEq(a, b) == a # NaN /\ b # NaN /\ a = b

-----------------------------------------------------------------------------
(* Task categorisation and filtering *)

Dashboard_getCategoryFlipped(dueDate) ==
    LET today == setHours0(now)
        due == setHours0(ParseDate(dueDate))
    IN  IF JsLess(today, due) THEN "overdue"
        ELSE IF JsEq(due, today) THEN "today"
        ELSE "next"

Dashboard_getCategoryStrict(dueDate) ==
    LET today == setHours0(now)
        due == setHours0(ParseDate(dueDate))
    IN  IF due = NaN THEN "invalid"
        ELSE IF JsLess(due, today) THEN "overdue"
        ELSE IF JsEq(due, today) THEN "today"
        ELSE "next"

Dashboard_getCategoryFromDate(dueDate) ==
    LET today == setHours0(now)
        due == setHours0(ParseDate(dueDate))
    IN  IF JsLess(due, today) THEN "overdue"
        ELSE IF JsEq(due, today) THEN "today"
        ELSE "next"

MyTasks_getCategoryFromDate(dueDate) ==
    LET today == setHours0(now)
        due == setHours0(ParseDate(dueDate))
    IN  IF JsLess(due, today) THEN "overdue"
        ELSE IF JsEq(due, today) THEN "today"
        ELSE "next"

Dashboard_filterNoAll(ts) ==
    SelectSeq(ts, LAMBDA task :
        Dashboard_getCategoryFromDate(task.due_date) = activeFilter)

Dashboard_filterTasks(ts) ==
    IF activeFilter = "all" THEN ts
    ELSE SelectSeq(ts, LAMBDA task :
            Dashboard_getCategoryFromDate(task.due_date) = activeFilter)

MyTasks_filterTasks(ts) ==
    IF activeFilter = "all" THEN ts
    ELSE SelectSeq(ts, LAMBDA task :
            MyTasks_getCategoryFromDate(task.due_date) = activeFilter)

\* const filteredTasks = filterTasks(tasks), of the page that is mounted
filteredTasks ==
    IF currentPage = "dashboard" THEN Dashboard_filterTasks(tasks)
    ELSE MyTasks_filterTasks(tasks)

\* the category the mounted page gives a due date
Category(dueDate) ==
    IF currentPage = "dashboard" THEN Dashboard_getCategoryFromDate(dueDate)
    ELSE MyTasks_getCategoryFromDate(dueDate)

\* what .order('due_date', {ascending: true}) can return: rows of the
\* tasks table (due_date is a NOT NULL date column) sorted by due date
TaskRows == [id : 1..MaxTasks, due_date : Days]
SortedTaskLists ==
    {ts \in UNION {[1..n -> TaskRows] : n \in 0..MaxTasks} :
        /\ \A i \in DOMAIN ts : ts[i].id = i
        /\ \A i, j \in DOMAIN ts : i < j => ts[i].due_date <= ts[j].due_date}

\* task lists whose due_date strings need not be dates, in any order
AnyTaskLists ==
    {ts \in UNION {[1..n -> [id : 1..MaxTasks, due_date : Days \cup {InvalidDate}]] :
                        n \in 0..MaxTasks} :
        \A i \in DOMAIN ts : ts[i].id = i}

\* todayCount, nextCount, overdueCount of the page that is mounted
CountOf(X) == Len(SelectSeq(tasks, LAMBDA t : Category(t.due_date) = X))
todayCount == CountOf("today")
nextCount == CountOf("next")
overdueCount == CountOf("overdue")

\* loadTasks / loadMyTasks without error: setTasks(data)
LoadTasks(data) ==
    /\ tasks' = data
    /\ UNCHANGED filterFrame
    /\ UNCHANGED <<now, tz, currentPage, activeFilter, lastClick, reclicked>>

ClickTileToggle(X) ==
    /\ activeFilter' = IF activeFilter = X THEN "all" ELSE X
    /\ lastClick' = X
    /\ reclicked' = (activeFilter = X)
    /\ UNCHANGED filterFrame
    /\ UNCHANGED <<now, tz, currentPage, tasks>>

\* a filter tile's onClick: setActiveFilter(X)
ClickTile(X) ==
    /\ activeFilter' = X
    /\ lastClick' = X
    /\ reclicked' = (activeFilter = X)
    /\ UNCHANGED filterFrame
    /\ UNCHANGED <<now, tz, currentPage, tasks>>

\* the 'Show all tasks' button, rendered only while a filter is active
ShowAllTasks ==
    /\ activeFilter # "all"
    /\ activeFilter' = "all"
    /\ lastClick' = "all"
    /\ reclicked' = FALSE
    /\ UNCHANGED filterFrame
    /\ UNCHANGED <<now, tz, currentPage, tasks>>

\* onNavigate(page): the mounted page is replaced and starts from its
\* initial state
Navigate(page) ==
    /\ page # currentPage
    /\ currentPage' = page
    /\ tasks' = <<>>
    /\ activeFilter' = "all"
    /\ lastClick' = "none"
    /\ reclicked' = FALSE
    /\ UNCHANGED filterFrame
    /\ UNCHANGED <<now, tz>>

-----------------------------------------------------------------------------
(* Dashboard: task creation with attachments *)

MaxDbTasks == 1     \* handleAddTask is submitted while tasks has fewer rows
MaxStaged == 2      \* a FileReader result is staged while the list is shorter
MaxBatches == 1     \* handleFileUpload calls with FileReaders still running

NoUser == ""                \* getUser() returned no user
Viewer == "A"               \* the user signed in on this client
Files == {"a.pdf", "b.png"}
Titles == {"", "T"}
DueInputs == {"", "d"}      \* the date input: empty, or a date string
Assignees == {"", "B"}      \* the select: 'Select employee', or a user id

EmptyTask == [title |-> "", dueDate |-> "", assignedTo |-> ""]

\* the handleAddTask invocation: its position (pc), the newTask and
\* attachments its closure holds (form, atts), the user and the new row's
\* id, the loop index, the backend writes it has issued (calls) and what
\* became of each staged attachment so far (done); result is how the last
\* invocation ended
IdleAddTask ==
    [pc |-> "idle", result |-> "none", form |-> EmptyTask, atts |-> <<>>,
     user |-> NoUser, taskId |-> 0, idx |-> 0, calls |-> <<>>, done |-> <<>>]

Call(op, i) == [op |-> op, i |-> i]

\* the sequences of distinct files a file input can hand over
FileLists ==
    {fs \in UNION {[1..n -> Files] : n \in 1..Cardinality(Files)} :
        \A i, j \in DOMAIN fs : i # j => fs[i] # fs[j]}

RemoveAt(s, i) == [k \in 1..(Len(s) - 1) |-> IF k < i THEN s[k] ELSE s[k + 1]]

\* the model follows the page while another task can still be submitted or
\* a submission is in progress
Active == Len(db_tasks) < MaxDbTasks \/ addTask.pc # "idle"

\* the form's onChange handlers: setNewTask({...newTask, field: value})
SetTitle(v) ==
    /\ Active
    /\ v # newTask.title
    /\ newTask' = [newTask EXCEPT !.title = v]
    /\ UNCHANGED taskFrame
    /\ UNCHANGED <<authUser, attachments, batches, addTask, db_tasks, db_task_attachments, consoleError, tasks>>

SetDueDate(v) ==
    /\ Active
    /\ v # newTask.dueDate
    /\ newTask' = [newTask EXCEPT !.dueDate = v]
    /\ UNCHANGED taskFrame
    /\ UNCHANGED <<authUser, attachments, batches, addTask, db_tasks, db_task_attachments, consoleError, tasks>>

SetAssignedTo(v) ==
    /\ Active
    /\ v # newTask.assignedTo
    /\ newTask' = [newTask EXCEPT !.assignedTo = v]
    /\ UNCHANGED taskFrame
    /\ UNCHANGED <<authUser, attachments, batches, addTask, db_tasks, db_task_attachments, consoleError, tasks>>

\* handleFileUpload: one FileReader per selected file, all sharing the
\* call's newAttachments array
handleFileUpload(files) ==
    /\ Active
    /\ Len(batches) < MaxBatches
    /\ batches' = Append(batches,
                    [newAttachments |-> <<>>,
                     pending |-> {files[i] : i \in DOMAIN files}])
    /\ UNCHANGED taskFrame
    /\ UNCHANGED <<authUser, newTask, attachments, addTask, db_tasks, db_task_attachments, consoleError, tasks>>

\* reader.onload of file f of call b: push onto the call's array, then
\* setAttachments(prev => [...prev, ...newAttachments]); a call whose
\* readers have all finished is dropped
ReaderOnload(b, f) ==
    /\ Active
    /\ b \in DOMAIN batches
    /\ f \in batches[b].pending
    /\ LET arr == Append(batches[b].newAttachments, f)
           rest == batches[b].pending \ {f}
       IN  /\ Len(attachments) < MaxStaged
           /\ attachments' = attachments \o arr
           /\ batches' = IF rest = {} THEN RemoveAt(batches, b)
                         ELSE [batches EXCEPT ![b] =
                                [newAttachments |-> arr, pending |-> rest]]
    /\ UNCHANGED taskFrame
    /\ UNCHANGED <<authUser, newTask, addTask, db_tasks, db_task_attachments, consoleError, tasks>>

\* removeAttachment(index): prev.filter((_, i) => i !== index)
removeAttachment(index) ==
    /\ Active
    /\ index \in DOMAIN attachments
    /\ attachments' = RemoveAt(attachments, index)
    /\ UNCHANGED taskFrame
    /\ UNCHANGED <<authUser, newTask, batches, addTask, db_tasks, db_task_attachments, consoleError, tasks>>

\* the session ends (expiry, or a sign-out in another tab)
SessionEnds ==
    /\ Active
    /\ authUser # NoUser
    /\ authUser' = NoUser
    /\ UNCHANGED taskFrame
    /\ UNCHANGED <<newTask, attachments, batches, addTask, db_tasks, db_task_attachments, consoleError, tasks>>

FormCompleteNoAssignee(form) == form.title # "" /\ form.dueDate # ""

\* the negation of line 192's early return
FormComplete(form) ==
    form.title # "" /\ form.dueDate # "" /\ form.assignedTo # ""

\* handleAddTask up to its first await: return on an incomplete form, else
\* call getUser(); newTask and attachments are the values of this render
SubmitAddTask ==
    /\ addTask.pc = "idle"
    /\ Len(db_tasks) < MaxDbTasks
    /\ IF FormComplete(newTask)
       THEN addTask' = [IdleAddTask EXCEPT !.pc = "getUser", !.form = newTask,
                                           !.atts = attachments]
       ELSE addTask' = [IdleAddTask EXCEPT !.result = "ignored"]
    /\ UNCHANGED taskFrame
    /\ UNCHANGED <<authUser, newTask, attachments, batches, db_tasks, db_task_attachments, consoleError, tasks>>

\* getUser() resolves: return without a user, else issue the task insert
GetUserResolves ==
    /\ addTask.pc = "getUser"
    /\ IF authUser = NoUser
       THEN addTask' = [addTask EXCEPT !.pc = "idle", !.result = "noUser"]
       ELSE addTask' = [addTask EXCEPT !.pc = "insert", !.user = authUser,
                                       !.calls = <<Call("insertTask", 0)>>]
    /\ UNCHANGED taskFrame
    /\ UNCHANGED <<authUser, newTask, attachments, batches, db_tasks, db_task_attachments, consoleError, tasks>>

\* the row the insert writes (lines 199-207)
NewTaskRow(id) ==
    [id |-> id, title |-> addTask.form.title,
     assigned_to |-> addTask.form.assignedTo, created_by |-> addTask.user,
     due_date |-> addTask.form.dueDate, status |-> "Not Started"]

\* what follows the task insert and every loop iteration: the upload of
\* staged attachment i, or past the last one the reset of the form and of
\* the staged list and the call of loadTasks()
ContinueFromBreak(a, i) ==
    /\ addTask' = [a EXCEPT !.pc = "loadTasks", !.idx = i]
    /\ newTask' = EmptyTask
    /\ attachments' = <<>>

ContinueFrom(a, i) ==
    IF i <= Len(a.atts)
    THEN /\ addTask' = [a EXCEPT !.pc = "upload", !.idx = i,
                                 !.calls = Append(a.calls, Call("upload", i))]
         /\ UNCHANGED <<newTask, attachments>>
    ELSE /\ addTask' = [a EXCEPT !.pc = "loadTasks", !.idx = i]
         /\ newTask' = EmptyTask
         /\ attachments' = <<>>

\* the task insert is rejected: console.error and return
InsertTaskFails ==
    /\ addTask.pc = "insert"
    /\ consoleError' = "Error creating task:"
    /\ addTask' = [addTask EXCEPT !.pc = "idle", !.result = "insertError"]
    /\ UNCHANGED taskFrame
    /\ UNCHANGED <<authUser, newTask, attachments, batches, db_tasks, db_task_attachments, tasks>>

\* the task insert is accepted (policy "Users can create tasks":
\* auth.uid() = created_by) and returns the new row
InsertTaskOk ==
    /\ addTask.pc = "insert"
    /\ authUser = addTask.user
    /\ LET id == Len(db_tasks) + 1
       IN  /\ db_tasks' = Append(db_tasks, NewTaskRow(id))
           /\ ContinueFrom([addTask EXCEPT !.taskId = id], 1)
    /\ UNCHANGED taskFrame
    /\ UNCHANGED <<authUser, batches, db_task_attachments,
                   consoleError, tasks>>

\* the upload of staged attachment idx fails: the next iteration
UploadFailsAbort ==
    /\ addTask.pc = "upload"
    /\ ContinueFromBreak([addTask EXCEPT !.done = Append(@, "failed")], addTask.idx + 1)
    /\ UNCHANGED taskFrame
    /\ UNCHANGED <<authUser, batches, db_tasks, db_task_attachments,
                   consoleError, tasks>>

UploadFails ==
    /\ addTask.pc = "upload"
    /\ ContinueFrom([addTask EXCEPT !.done = Append(@, "failed")], addTask.idx + 1)
    /\ UNCHANGED taskFrame
    /\ UNCHANGED <<authUser, batches, db_tasks, db_task_attachments,
                   consoleError, tasks>>

\* the upload succeeds (policy "Users can upload attachments" of the
\* bucket: an authenticated user): the attachment record insert is issued.
\* The bucket's content is not modelled: no page reads it back
UploadOk ==
    /\ addTask.pc = "upload"
    /\ authUser # NoUser
    /\ addTask' = [addTask EXCEPT
                    !.pc = "insertAttachment",
                    !.done = Append(@, "uploaded"),
                    !.calls = Append(@, Call("insertAttachment", addTask.idx))]
    /\ UNCHANGED taskFrame
    /\ UNCHANGED <<authUser, newTask, attachments, batches, db_tasks,
                   db_task_attachments, consoleError, tasks>>

AttachmentRow ==
    [task_id |-> addTask.taskId, file_name |-> addTask.atts[addTask.idx],
     uploaded_by |-> addTask.user]

\* the record insert is accepted (policy "Users can upload attachments":
\* auth.uid() = uploaded_by)
InsertAttachmentOk ==
    /\ addTask.pc = "insertAttachment"
    /\ authUser = addTask.user
    /\ db_task_attachments' = Append(db_task_attachments, AttachmentRow)
    /\ ContinueFrom([addTask EXCEPT !.done[addTask.idx] = "stored"],
                    addTask.idx + 1)
    /\ UNCHANGED taskFrame
    /\ UNCHANGED <<authUser, batches, db_tasks, consoleError, tasks>>

\* the record insert is rejected: its error is not read (line 231)
InsertAttachmentFails ==
    /\ addTask.pc = "insertAttachment"
    /\ ContinueFrom([addTask EXCEPT !.done[addTask.idx] = "rejected"],
                    addTask.idx + 1)
    /\ UNCHANGED taskFrame
    /\ UNCHANGED <<authUser, batches, db_tasks, db_task_attachments,
                   consoleError, tasks>>

IsPermutation(p, n) ==
    /\ p \in [1..n -> 1..n]
    /\ \A i, j \in 1..n : i # j => p[i] # p[j]

\* what select().order('due_date', {ascending: true}) can return: the rows
\* by due date, rows of one date in any order ("" sorts before "d")
DueRank(d) == IF d = "" THEN 0 ELSE 1
OrderedByDueDate(rows) ==
    {[i \in 1..Len(rows) |-> rows[p[i]]] :
        p \in {q \in [1..Len(rows) -> 1..Len(rows)] :
                /\ IsPermutation(q, Len(rows))
                /\ \A i, j \in 1..Len(rows) :
                    i < j => DueRank(rows[q[i]].due_date) <= DueRank(rows[q[j]].due_date)}}

\* loadTasks after the reset: setTasks(data)
ReloadTasksOk(data) ==
    /\ addTask.pc = "loadTasks"
    /\ authUser # NoUser
    /\ data \in OrderedByDueDate(db_tasks)
    /\ tasks' = data
    /\ addTask' = [IdleAddTask EXCEPT !.result = "done"]
    /\ UNCHANGED taskFrame
    /\ UNCHANGED <<authUser, newTask, attachments, batches, db_tasks, db_task_attachments, consoleError>>

\* loadTasks fails: console.error and return
ReloadTasksFails ==
    /\ addTask.pc = "loadTasks"
    /\ consoleError' = "Error loading tasks:"
    /\ addTask' = [IdleAddTask EXCEPT !.result = "loadError"]
    /\ UNCHANGED taskFrame
    /\ UNCHANGED <<authUser, newTask, attachments, batches, db_tasks, db_task_attachments, tasks>>

IdleTask ==
    /\ authUser = Viewer
    /\ newTask = EmptyTask
    /\ attachments = <<>>
    /\ batches = <<>>
    /\ addTask = IdleAddTask
    /\ db_tasks = <<>>
    /\ db_task_attachments = <<>>
    /\ consoleError = ""

-----------------------------------------------------------------------------
(* The team roster *)

\* the result of the user_presence select: its rows, or data: null
PresenceData(rows) == [ok |-> TRUE, rows |-> rows]
NoPresenceData == [ok |-> FALSE, rows |-> {}]

\* the result of listUsers(): the users, or data: null
NoUserList == <<"null">>

\* the users of the auth service, with their created_at
AuthUsers ==
    <<[id |-> "A", created_at |-> 1], [id |-> "B", created_at |-> 2],
      [id |-> "C", created_at |-> 3]>>

\* what auth.admin.listUsers() can return: the users, one page of them in
\* the service's order, or nothing
UserLists == {AuthUsers, <<AuthUsers[2], AuthUsers[1]>>, <<>>}
ListUsersResults == UserLists \cup {NoUserList}

\* presenceData?.find(p => p.user_id === user.id)
FindPresence(presenceData, id) ==
    IF presenceData.ok THEN {p \in presenceData.rows : p.user_id = id} ELSE {}

\* DashboardPage loadTeamMembers: users.users.map(...)
Dashboard_members(users, presenceData) ==
    [i \in 1..Len(users) |->
        LET found == FindPresence(presenceData, users[i].id)
        IN  [user_id |-> users[i].id,
             is_online |-> IF found # {} THEN (CHOOSE p \in found : TRUE).is_online
                           ELSE FALSE,
             last_seen |-> IF found # {} THEN (CHOOSE p \in found : TRUE).last_seen
                           ELSE users[i].created_at]]

\* EmployeesPage loadTeamMembers: users.users.map(...)
Employees_members(users, presenceData) ==
    [i \in 1..Len(users) |->
        LET found == FindPresence(presenceData, users[i].id)
        IN  [user_id |-> users[i].id,
             is_online |-> IF found # {} THEN (CHOOSE p \in found : TRUE).is_online
                           ELSE FALSE,
             last_seen |-> IF found # {} THEN (CHOOSE p \in found : TRUE).last_seen
                           ELSE users[i].created_at]]

\* a loadTeamMembers call of a page: awaiting listUsers() (stage
\* "listUsers") or, with the users it got, the user_presence select (stage
\* "presence"); origin is the caller
RosterCall(page, origin) ==
    [page |-> page, origin |-> origin, stage |-> "listUsers", users |-> <<>>]

MemberIds(list) == {list[i].user_id : i \in 1..Len(list)}

-----------------------------------------------------------------------------
(* Employees page: the chat thread *)

MaxMsgs == 2        \* a message is inserted while the table has fewer rows
MaxLoads == 1       \* a loadMessages call is issued while fewer are in flight

Others == {"B", "C"}            \* the other users
Users == {Viewer} \cup Others   \* what auth.admin.listUsers() returns

\* the characters of the message input; a text is a sequence of them
Texts == {<<>>, <<" ">>, <<"x", " ">>}

\* String.prototype.trim
RECURSIVE TrimLeft(_)
TrimLeft(t) == IF t # <<>> /\ Head(t) = " " THEN TrimLeft(Tail(t)) ELSE t
RECURSIVE TrimRight(_)
TrimRight(t) ==
    IF t # <<>> /\ t[Len(t)] = " " THEN TrimRight(SubSeq(t, 1, Len(t) - 1)) ELSE t
Trim(t) == TrimRight(TrimLeft(t))

NoPoll == [active |-> FALSE, other |-> NoUser, uid |-> NoUser]
IdleSend == [pc |-> "idle", result |-> "none", other |-> NoUser, uid |-> NoUser,
             text |-> <<>>]

\* a loadMessages(otherUserId) call: the currentUserId its closure holds
\* and how far it is: "select" (query sent), "selected" (the response, data,
\* on its way back), "update" (mark-as-read sent; data is kept as history)
LoadCall(other, uid) ==
    [other |-> other, uid |-> uid, stage |-> "select", data |-> <<>>]

\* identical calls in flight are not told apart, so no second one is issued
CanIssueLoad(c) == c \notin loads /\ Cardinality(loads) < MaxLoads

\* the rows .or(and(sender.eq.A,receiver.eq.B),and(sender.eq.B,receiver.eq.A))
\* keeps, among those policy "Users can view their own messages" shows
ThreadRowsAnyParty(uid, other) ==
    {m \in chat_messages :
        /\ (authUser = m.sender_id \/ authUser = m.receiver_id)
        /\ (m.sender_id = uid \/ m.receiver_id = uid)}

ThreadRows(uid, other) ==
    {m \in chat_messages :
        /\ (authUser = m.sender_id \/ authUser = m.receiver_id)
        /\ \/ (m.sender_id = uid /\ m.receiver_id = other)
           \/ (m.sender_id = other /\ m.receiver_id = uid)}

\* the orders in which a query may return a set of rows
Listings(rows) ==
    {l \in [1..Cardinality(rows) -> rows] :
        \A i, j \in 1..Cardinality(rows) : i # j => l[i] # l[j]}

OrderedAnyOrder(rows) == Listings(rows)

\* .order('created_at', {ascending: true})
OrderedByCreatedAt(rows) ==
    {l \in Listings(rows) :
        \A i, j \in 1..Cardinality(rows) :
            i < j => l[i].created_at <= l[j].created_at}

\* the rows .update({is_read: true}).eq('receiver_id', uid)
\* .eq('sender_id', other).eq('is_read', false) changes, under policy
\* "Users can update own messages"
RowsToMarkWholeThread(uid, other) ==
    {m \in chat_messages :
        /\ (authUser = m.sender_id \/ authUser = m.receiver_id)
        /\ \/ (m.sender_id = uid /\ m.receiver_id = other)
           \/ (m.sender_id = other /\ m.receiver_id = uid)
        /\ m.is_read = FALSE}

RowsToMark(uid, other) ==
    {m \in chat_messages :
        /\ (authUser = m.sender_id \/ authUser = m.receiver_id)
        /\ m.receiver_id = uid
        /\ m.sender_id = other
        /\ m.is_read = FALSE}

NextCreatedAt ==
    IF chat_messages = {} THEN 1
    ELSE 1 + CHOOSE t \in {m.created_at : m \in chat_messages} :
                \A m \in chat_messages : m.created_at <= t

NewMessageRow(sender, receiver) ==
    [id |-> Cardinality(chat_messages) + 1, sender_id |-> sender,
     receiver_id |-> receiver, is_read |-> FALSE, created_at |-> NextCreatedAt]

\* checkAuth: getUser() resolves with the signed-in user: setCurrentUserId
CheckAuthResolves ==
    /\ currentUserId = NoUser
    /\ authUser # NoUser
    /\ currentUserId' = authUser
    /\ UNCHANGED chatFrame
    /\ UNCHANGED <<teamMembers, selectedUser, showChat, messages, newMessage,
                   chatPoll, loads, send, chat_messages, consoleError>>

\* loadTeamMembers resolves (called by checkAuth and by the 5-second
\* interval, which runs from mount on): setTeamMembers(members)
LoadTeamMembersResolves ==
    /\ teamMembers = <<>>
    /\ teamMembers' = Employees_members(AuthUsers, PresenceData(user_presence))
    /\ UNCHANGED chatFrame
    /\ UNCHANGED <<currentUserId, selectedUser, showChat, messages, newMessage,
                   chatPoll, loads, send, chat_messages, consoleError>>

\* openChat(user), offered for the members other than currentUserId; the
\* chat effect then clears the previous interval, calls loadMessages and
\* starts an interval, both with this render's currentUserId
openChat(user) ==
    /\ user \in MemberIds(teamMembers)
    /\ user # currentUserId
    /\ user # selectedUser
    /\ CanIssueLoad(LoadCall(user, currentUserId))
    /\ selectedUser' = user
    /\ showChat' = TRUE
    /\ loads' = loads \cup {LoadCall(user, currentUserId)}
    /\ chatPoll' = [active |-> TRUE, other |-> user, uid |-> currentUserId]
    /\ UNCHANGED chatFrame
    /\ UNCHANGED <<currentUserId, teamMembers, messages, newMessage, send,
                   chat_messages, consoleError>>

closeChatKeepsTimer ==
    /\ showChat
    /\ showChat' = FALSE
    /\ selectedUser' = NoUser
    /\ messages' = <<>>
    /\ UNCHANGED chatFrame
    /\ UNCHANGED <<currentUserId, teamMembers, newMessage, chatPoll, loads,
                   send, chat_messages, consoleError>>

\* closeChat; the effect's cleanup clears the interval
closeChat ==
    /\ showChat
    /\ showChat' = FALSE
    /\ selectedUser' = NoUser
    /\ messages' = <<>>
    /\ chatPoll' = NoPoll
    /\ UNCHANGED chatFrame
    /\ UNCHANGED <<currentUserId, teamMembers, newMessage, loads, send,
                   chat_messages, consoleError>>

\* the 3-second interval fires: loadMessages(selectedUser.user_id) of the
\* effect's closure
ChatPollTick ==
    /\ chatPoll.active
    /\ CanIssueLoad(LoadCall(chatPoll.other, chatPoll.uid))
    /\ loads' = loads \cup {LoadCall(chatPoll.other, chatPoll.uid)}
    /\ UNCHANGED chatFrame
    /\ UNCHANGED <<currentUserId, teamMembers, selectedUser, showChat, messages,
                   newMessage, chatPoll, send, chat_messages, consoleError>>

\* the input's onChange: setNewMessage(e.target.value)
TypeMessage(text) ==
    /\ showChat
    /\ text # newMessage
    /\ newMessage' = text
    /\ UNCHANGED chatFrame
    /\ UNCHANGED <<currentUserId, teamMembers, selectedUser, showChat, messages,
                   chatPoll, loads, send, chat_messages, consoleError>>

LoadMessagesFailsClears(c) ==
    /\ c \in loads
    /\ c.stage = "select"
    /\ loads' = loads \ {c}
    /\ consoleError' = "Error loading messages:"
    /\ messages' = <<>>
    /\ UNCHANGED chatFrame
    /\ UNCHANGED <<currentUserId, teamMembers, selectedUser, showChat,
                   newMessage, chatPoll, send, chat_messages>>

\* the select is answered with an error (an empty currentUserId is no
\* uuid; or the request fails): console.error and return
LoadMessagesFails(c) ==
    /\ c \in loads
    /\ c.stage = "select"
    /\ loads' = loads \ {c}
    /\ consoleError' = "Error loading messages:"
    /\ UNCHANGED chatFrame
    /\ UNCHANGED <<currentUserId, teamMembers, selectedUser, showChat, messages,
                   newMessage, chatPoll, send, chat_messages>>

\* the backend runs the select
LoadMessagesSelect(c, data) ==
    /\ c \in loads
    /\ c.stage = "select"
    /\ c.uid # NoUser
    /\ data \in OrderedByCreatedAt(ThreadRows(c.uid, c.other))
    /\ [c EXCEPT !.stage = "selected", !.data = data] \notin loads
    /\ loads' = (loads \ {c}) \cup {[c EXCEPT !.stage = "selected", !.data = data]}
    /\ UNCHANGED chatFrame
    /\ UNCHANGED <<currentUserId, teamMembers, selectedUser, showChat, messages,
                   newMessage, chatPoll, send, chat_messages, consoleError>>

\* the response arrives: setMessages(data || []), then the update is sent
LoadMessagesSetMessages(c) ==
    /\ c \in loads
    /\ c.stage = "selected"
    /\ [c EXCEPT !.stage = "update"] \notin loads
    /\ messages' = c.data
    /\ loads' = (loads \ {c}) \cup {[c EXCEPT !.stage = "update"]}
    /\ UNCHANGED chatFrame
    /\ UNCHANGED <<currentUserId, teamMembers, selectedUser, showChat, newMessage,
                   chatPoll, send, chat_messages, consoleError>>

\* the backend runs the update; its result is not read
LoadMessagesUpdate(c) ==
    /\ c \in loads
    /\ c.stage = "update"
    /\ chat_messages' =
        {IF m \in RowsToMark(c.uid, c.other) THEN [m EXCEPT !.is_read = TRUE] ELSE m :
            m \in chat_messages}
    /\ loads' = loads \ {c}
    /\ UNCHANGED chatFrame
    /\ UNCHANGED <<currentUserId, teamMembers, selectedUser, showChat, messages,
                   newMessage, chatPoll, send, consoleError>>

\* the update is rejected or lost: nothing changes (line 97 reads no error)
LoadMessagesUpdateFails(c) ==
    /\ c \in loads
    /\ c.stage = "update"
    /\ loads' = loads \ {c}
    /\ UNCHANGED chatFrame
    /\ UNCHANGED <<currentUserId, teamMembers, selectedUser, showChat, messages,
                   newMessage, chatPoll, send, chat_messages, consoleError>>

SendableUntrimmed(text, user) == text # <<>> /\ user # NoUser

\* the negation of line 106's early return
Sendable(text, user) == Trim(text) # <<>> /\ user # NoUser

\* handleSendMessage up to its await: return, or send the insert with this
\* render's currentUserId, selectedUser and newMessage
handleSendMessage ==
    /\ send.pc = "idle"
    /\ IF Sendable(newMessage, selectedUser)
       THEN send' = [pc |-> "insert", result |-> "none", other |-> selectedUser,
                     uid |-> currentUserId, text |-> newMessage]
       ELSE send' = [IdleSend EXCEPT !.result = "ignored"]
    /\ UNCHANGED chatFrame
    /\ UNCHANGED <<currentUserId, teamMembers, selectedUser, showChat, messages,
                   newMessage, chatPoll, loads, chat_messages, consoleError>>

SendInsertOkKeepInput ==
    /\ send.pc = "insert"
    /\ send.uid = authUser
    /\ Cardinality(chat_messages) < MaxMsgs
    /\ CanIssueLoad(LoadCall(send.other, send.uid))
    /\ chat_messages' = chat_messages \cup {NewMessageRow(send.uid, send.other)}
    /\ newMessage' = newMessage
    /\ loads' = loads \cup {LoadCall(send.other, send.uid)}
    /\ send' = [IdleSend EXCEPT !.result = "sent"]
    /\ UNCHANGED chatFrame
    /\ UNCHANGED <<currentUserId, teamMembers, selectedUser, showChat, messages,
                   chatPoll, consoleError>>

\* the insert is accepted (policy "Users can send messages": auth.uid() =
\* sender_id): setNewMessage(''), then loadMessages(selectedUser.user_id)
SendInsertOk ==
    /\ send.pc = "insert"
    /\ send.uid = authUser
    /\ Cardinality(chat_messages) < MaxMsgs
    /\ CanIssueLoad(LoadCall(send.other, send.uid))
    /\ chat_messages' = chat_messages \cup {NewMessageRow(send.uid, send.other)}
    /\ newMessage' = <<>>
    /\ loads' = loads \cup {LoadCall(send.other, send.uid)}
    /\ send' = [IdleSend EXCEPT !.result = "sent"]
    /\ UNCHANGED chatFrame
    /\ UNCHANGED <<currentUserId, teamMembers, selectedUser, showChat, messages,
                   chatPoll, consoleError>>

\* the insert is rejected: console.error and return
SendInsertFails ==
    /\ send.pc = "insert"
    /\ send' = [IdleSend EXCEPT !.result = "failed"]
    /\ consoleError' = "Error sending message:"
    /\ UNCHANGED chatFrame
    /\ UNCHANGED <<currentUserId, teamMembers, selectedUser, showChat, messages,
                   newMessage, chatPoll, loads, chat_messages>>

\* another user's client sends the viewer a message
OtherSends(sender) ==
    /\ Cardinality(chat_messages) < MaxMsgs
    /\ chat_messages' = chat_messages \cup {NewMessageRow(sender, Viewer)}
    /\ UNCHANGED chatFrame
    /\ UNCHANGED <<currentUserId, teamMembers, selectedUser, showChat, messages,
                   newMessage, chatPoll, loads, send, consoleError>>

IdleChat ==
    /\ currentUserId = NoUser
    /\ teamMembers = <<>>
    /\ selectedUser = NoUser
    /\ showChat = FALSE
    /\ messages = <<>>
    /\ newMessage = <<>>
    /\ chatPoll = NoPoll
    /\ loads = {}
    /\ send = IdleSend
    /\ chat_messages = {}

-----------------------------------------------------------------------------
(* Dashboard: the presence heartbeat *)

MaxCalls == 2       \* a presence write is started while fewer are in progress
MaxTicks == 2       \* the interval fires at most this often
MaxClock == 1       \* the clock advances at most this many hours

\* a presence write: updatePresence(isOnline) awaiting getUser() (stage
\* "getUser"), or an upsert on its way to the backend (stage "upsert") with
\* the row it carries; origin is the caller
PresenceCall(origin, isOnline) ==
    [origin |-> origin, isOnline |-> isOnline, stage |-> "getUser",
     user_id |-> NoUser, last_seen |-> 0]

CanStart(c) == c \notin presenceCalls /\ Cardinality(presenceCalls) < MaxCalls

\* the effect's cleanup runs when the Dashboard is the mounted page:
\* removeEventListener, clearInterval, updatePresence(false)
Unmounting == currentPage = "dashboard"

\* the Dashboard is navigated to and mounts: checkAuth() is called, the
\* listeners and the interval are installed
MountDashboard ==
    /\ currentPage # "dashboard"
    /\ checkAuth \in {"idle", "done"}
    /\ currentPage' = "dashboard"
    /\ checkAuth' = "getUser"
    /\ dashTeamMembers' = <<>>
    /\ UNCHANGED <<presFrame, rosterCalls>>
    /\ UNCHANGED <<now, tasks, authUser, consoleError, documentHidden,
                   presenceCalls, ticks, logout, user_presence>>

\* checkAuth: getUser() resolves with no user: onNavigate('login'), which
\* unmounts the Dashboard if it is still the page
CheckAuthNoUser ==
    /\ checkAuth = "getUser"
    /\ authUser = NoUser
    /\ Unmounting => CanStart(PresenceCall("cleanup", FALSE))
    /\ checkAuth' = "done"
    /\ currentPage' = "login"
    /\ presenceCalls' =
        IF Unmounting THEN presenceCalls \cup {PresenceCall("cleanup", FALSE)}
        ELSE presenceCalls
    /\ UNCHANGED <<presFrame, dashTeamMembers, rosterCalls>>
    /\ UNCHANGED <<now, tasks, authUser, consoleError, documentHidden, ticks,
                   logout, user_presence>>

\* checkAuth: getUser() resolves with the user: initializeUserPresence(user.id)
\* sends its upsert
CheckAuthUser ==
    /\ checkAuth = "getUser"
    /\ authUser # NoUser
    /\ CanStart([origin |-> "mount", isOnline |-> TRUE, stage |-> "upsert",
                 user_id |-> authUser, last_seen |-> now])
    /\ checkAuth' = "initPresence"
    /\ presenceCalls' = presenceCalls \cup
            {[origin |-> "mount", isOnline |-> TRUE, stage |-> "upsert",
              user_id |-> authUser, last_seen |-> now]}
    /\ UNCHANGED <<presFrame, dashTeamMembers, rosterCalls>>
    /\ UNCHANGED <<now, currentPage, tasks, authUser, consoleError,
                   documentHidden, ticks, logout, user_presence>>

\* checkAuth: loadTasks() resolves: setTasks(data) on the mounted page, then
\* loadTeamMembers() is called, which ends checkAuth
CheckAuthLoadTasks(data) ==
    /\ checkAuth = "loadTasks"
    /\ data \in OrderedByDueDate(db_tasks)
    /\ checkAuth' = "done"
    /\ tasks' = IF currentPage = "dashboard" THEN data ELSE tasks
    /\ rosterCalls' = rosterCalls \cup {RosterCall("dashboard", "checkAuth")}
    /\ UNCHANGED <<presFrame, dashTeamMembers>>
    /\ UNCHANGED <<now, currentPage, authUser, consoleError, documentHidden,
                   presenceCalls, ticks, logout, user_presence>>

\* checkAuth: loadTasks() resolves with an error: console.error and return;
\* checkAuth goes on to loadTeamMembers()
CheckAuthLoadTasksFails ==
    /\ checkAuth = "loadTasks"
    /\ checkAuth' = "done"
    /\ consoleError' = "Error loading tasks:"
    /\ rosterCalls' = rosterCalls \cup {RosterCall("dashboard", "checkAuth")}
    /\ UNCHANGED <<presFrame, dashTeamMembers>>
    /\ UNCHANGED <<now, currentPage, tasks, authUser, documentHidden,
                   presenceCalls, ticks, logout, user_presence>>

\* updatePresence: getUser() resolves; return without a user, else send the
\* upsert of user.id with new Date() as last_seen
PresenceGetUser(c) ==
    /\ c \in presenceCalls
    /\ c.stage = "getUser"
    /\ IF authUser = NoUser
       THEN /\ presenceCalls' = presenceCalls \ {c}
            /\ logout' = IF c.origin = "logout" THEN "signOut" ELSE logout
       ELSE /\ [c EXCEPT !.stage = "upsert", !.user_id = authUser,
                              !.last_seen = now] \notin presenceCalls
            /\ presenceCalls' = (presenceCalls \ {c}) \cup
                    {[c EXCEPT !.stage = "upsert", !.user_id = authUser,
                               !.last_seen = now]}
            /\ logout' = logout
    /\ UNCHANGED <<presFrame, dashTeamMembers, rosterCalls>>
    /\ UNCHANGED <<now, currentPage, tasks, authUser, consoleError,
                   documentHidden, checkAuth, ticks, user_presence>>

\* the table after an upsert (user_id is the primary key)
Upserted(c) ==
    {r \in user_presence : r.user_id # c.user_id}
    \cup {[user_id |-> c.user_id, is_online |-> c.isOnline, last_seen |-> c.last_seen]}

\* what the caller does once its presence write has returned
AfterPresence(c) ==
    /\ checkAuth' = IF c.origin = "mount" THEN "loadTasks" ELSE checkAuth
    /\ logout' = IF c.origin = "logout" THEN "signOut" ELSE logout

\* the backend applies the upsert (policies "Users can update own presence"
\* and "Users can update own presence status": auth.uid() = user_id)
PresenceUpsertOk(c) ==
    /\ c \in presenceCalls
    /\ c.stage = "upsert"
    /\ c.user_id = authUser
    /\ user_presence' = Upserted(c)
    /\ presenceCalls' = presenceCalls \ {c}
    /\ AfterPresence(c)
    /\ UNCHANGED <<presFrame, dashTeamMembers, rosterCalls>>
    /\ UNCHANGED <<now, currentPage, tasks, authUser, consoleError,
                   documentHidden, ticks>>

\* the upsert is rejected or lost; only initializeUserPresence reads the error
PresenceUpsertFails(c) ==
    /\ c \in presenceCalls
    /\ c.stage = "upsert"
    /\ presenceCalls' = presenceCalls \ {c}
    /\ AfterPresence(c)
    /\ consoleError' =
        IF c.origin = "mount" THEN "Error initializing presence:" ELSE consoleError
    /\ UNCHANGED <<presFrame, dashTeamMembers, rosterCalls>>
    /\ UNCHANGED <<now, currentPage, tasks, authUser, documentHidden, ticks,
                   user_presence>>

HeartbeatUnconditional == TRUE

\* the interval callback's condition (line 75)
HeartbeatDue == ~documentHidden

\* the 30-second interval fires
PresenceTick ==
    /\ currentPage = "dashboard"
    /\ ticks < MaxTicks
    /\ HeartbeatDue => CanStart(PresenceCall("tick", TRUE))
    /\ ticks' = ticks + 1
    /\ presenceCalls' =
        IF HeartbeatDue THEN presenceCalls \cup {PresenceCall("tick", TRUE)}
        ELSE presenceCalls
    /\ UNCHANGED <<presFrame, dashTeamMembers, rosterCalls>>
    /\ UNCHANGED <<now, currentPage, tasks, authUser, consoleError,
                   documentHidden, checkAuth, logout, user_presence>>

\* the document's visibility changes; with the Dashboard mounted,
\* handleVisibilityChange: updatePresence(!document.hidden)
handleVisibilityChange ==
    /\ currentPage = "dashboard" => CanStart(PresenceCall("visibility", documentHidden))
    /\ documentHidden' = ~documentHidden
    /\ presenceCalls' =
        IF currentPage = "dashboard"
        THEN presenceCalls \cup {PresenceCall("visibility", documentHidden)}
        ELSE presenceCalls
    /\ UNCHANGED <<presFrame, dashTeamMembers, rosterCalls>>
    /\ UNCHANGED <<now, currentPage, tasks, authUser, consoleError, checkAuth,
                   ticks, logout, user_presence>>

\* the window unloads: handleBeforeUnload: updatePresence(false); a reloaded
\* App starts on 'home'
handleBeforeUnload ==
    /\ currentPage = "dashboard"
    /\ CanStart(PresenceCall("unload", FALSE))
    /\ presenceCalls' = presenceCalls \cup {PresenceCall("unload", FALSE)}
    /\ currentPage' = "home"
    /\ UNCHANGED <<presFrame, dashTeamMembers, rosterCalls>>
    /\ UNCHANGED <<now, tasks, authUser, consoleError, documentHidden, checkAuth,
                   ticks, logout, user_presence>>

\* a navigation button: onNavigate('myTasks'); the effect's cleanup runs
NavigateAway ==
    /\ currentPage = "dashboard"
    /\ CanStart(PresenceCall("cleanup", FALSE))
    /\ presenceCalls' = presenceCalls \cup {PresenceCall("cleanup", FALSE)}
    /\ currentPage' = "myTasks"
    /\ UNCHANGED <<presFrame, dashTeamMembers, rosterCalls>>
    /\ UNCHANGED <<now, tasks, authUser, consoleError, documentHidden, checkAuth,
                   ticks, logout, user_presence>>

\* handleLogout up to its first await: updatePresence(false)
handleLogout ==
    /\ currentPage = "dashboard"
    /\ logout = "idle"
    /\ CanStart(PresenceCall("logout", FALSE))
    /\ presenceCalls' = presenceCalls \cup {PresenceCall("logout", FALSE)}
    /\ logout' = "presence"
    /\ UNCHANGED <<presFrame, dashTeamMembers, rosterCalls>>
    /\ UNCHANGED <<now, currentPage, tasks, authUser, consoleError,
                   documentHidden, checkAuth, ticks, user_presence>>

\* handleLogout: signOut() resolves, then onNavigate('login')
LogoutSignOut ==
    /\ logout = "signOut"
    /\ Unmounting => CanStart(PresenceCall("cleanup", FALSE))
    /\ authUser' = NoUser
    /\ currentPage' = "login"
    /\ logout' = "idle"
    /\ presenceCalls' =
        IF Unmounting THEN presenceCalls \cup {PresenceCall("cleanup", FALSE)}
        ELSE presenceCalls
    /\ UNCHANGED <<presFrame, dashTeamMembers, rosterCalls>>
    /\ UNCHANGED <<now, tasks, consoleError, documentHidden, checkAuth, ticks,
                   user_presence>>

\* an hour passes
TimePasses ==
    /\ now < HoursPerDay + MaxClock
    /\ now' = now + 1
    /\ UNCHANGED <<presFrame, dashTeamMembers, rosterCalls>>
    /\ UNCHANGED <<currentPage, tasks, authUser, consoleError, presVars>>

IdlePresence ==
    /\ documentHidden = FALSE
    /\ checkAuth = "idle"
    /\ presenceCalls = {}
    /\ ticks = 0
    /\ logout = "idle"
    /\ user_presence = {}

-----------------------------------------------------------------------------
(* Dashboard and Employees page: loading the roster *)

MaxRosterCalls == 1     \* a loadTeamMembers call starts while fewer are running
MaxRosterTicks == 2     \* the roster interval fires at most this often

CanLoadRoster(c) == c \notin rosterCalls /\ Cardinality(rosterCalls) < MaxRosterCalls

\* the Employees page is navigated to and mounts with its initial state:
\* checkAuth() is called and the 5-second interval is started
MountEmployees ==
    /\ currentPage # "employees"
    /\ rosterAuth \in {"idle", "done"}
    /\ currentPage' = "employees"
    /\ rosterAuth' = "getUser"
    /\ currentUserId' = NoUser
    /\ teamMembers' = <<>>
    /\ UNCHANGED rosterFrame
    /\ UNCHANGED <<authUser, checkAuth, user_presence, dashTeamMembers,
                   chatPoll, rosterCalls, rosterTicks>>

\* a navigation button of the Employees page: onNavigate('myTasks'); the
\* effect's cleanup clears the interval
NavigateFromEmployees ==
    /\ currentPage = "employees"
    /\ currentPage' = "myTasks"
    /\ chatPoll' = NoPoll
    /\ UNCHANGED rosterFrame
    /\ UNCHANGED <<authUser, checkAuth, user_presence, currentUserId,
                   teamMembers, dashTeamMembers, rosterCalls, rosterTicks,
                   rosterAuth>>

\* Employees checkAuth: getUser() resolves with no user: onNavigate('login')
EmployeesCheckAuthNoUser ==
    /\ rosterAuth = "getUser"
    /\ authUser = NoUser
    /\ rosterAuth' = "done"
    /\ currentPage' = "login"
    /\ chatPoll' = NoPoll
    /\ UNCHANGED rosterFrame
    /\ UNCHANGED <<authUser, checkAuth, user_presence, currentUserId,
                   teamMembers, dashTeamMembers, rosterCalls, rosterTicks>>

\* Employees checkAuth: getUser() resolves with the user:
\* setCurrentUserId(user.id) and loadTeamMembers() is called
EmployeesCheckAuthUser ==
    /\ rosterAuth = "getUser"
    /\ authUser # NoUser
    /\ CanLoadRoster(RosterCall("employees", "checkAuth"))
    /\ rosterAuth' = "done"
    /\ currentUserId' = IF currentPage = "employees" THEN authUser ELSE currentUserId
    /\ rosterCalls' = rosterCalls \cup {RosterCall("employees", "checkAuth")}
    /\ UNCHANGED rosterFrame
    /\ UNCHANGED <<authUser, checkAuth, user_presence, currentPage,
                   teamMembers, dashTeamMembers, chatPoll, rosterTicks>>

RosterIntervalOnAnyPage == TRUE

\* the Employees page's interval exists from its mount to its unmount
RosterIntervalActive == currentPage = "employees"

\* the 5-second interval fires: loadTeamMembers()
RosterTick ==
    /\ RosterIntervalActive
    /\ rosterTicks < MaxRosterTicks
    /\ CanLoadRoster(RosterCall("employees", "timer"))
    /\ rosterTicks' = rosterTicks + 1
    /\ rosterCalls' = rosterCalls \cup {RosterCall("employees", "timer")}
    /\ UNCHANGED rosterFrame
    /\ UNCHANGED <<authUser, checkAuth, user_presence, currentPage,
                   currentUserId, teamMembers, dashTeamMembers, chatPoll,
                   rosterAuth>>

\* loadTeamMembers: listUsers() resolves; return without users, else send
\* the user_presence select
RosterListUsers(c, users) ==
    /\ c \in rosterCalls
    /\ c.stage = "listUsers"
    /\ users \in ListUsersResults
    /\ IF users = NoUserList
       THEN rosterCalls' = rosterCalls \ {c}
       ELSE /\ [c EXCEPT !.stage = "presence", !.users = users] \notin rosterCalls
            /\ rosterCalls' = (rosterCalls \ {c}) \cup
                    {[c EXCEPT !.stage = "presence", !.users = users]}
    /\ UNCHANGED rosterFrame
    /\ UNCHANGED <<authUser, checkAuth, user_presence, currentPage,
                   currentUserId, teamMembers, dashTeamMembers, chatPoll,
                   rosterTicks, rosterAuth>>

\* the rows a select of user_presence returns (policy "Users can view all
\* presence": TO authenticated USING (true))
VisiblePresence == IF authUser = NoUser THEN {} ELSE user_presence

RosterPresenceReselects(c, presenceData) ==
    /\ c \in rosterCalls
    /\ c.stage = "presence"
    /\ presenceData \in {PresenceData(VisiblePresence), NoPresenceData}
    /\ rosterCalls' = rosterCalls \ {c}
    /\ teamMembers' =
        IF c.page = "employees" /\ currentPage = "employees"
        THEN Employees_members(c.users, presenceData) ELSE teamMembers
    /\ dashTeamMembers' =
        IF c.page = "dashboard" /\ currentPage = "dashboard"
        THEN Dashboard_members(c.users, presenceData) ELSE dashTeamMembers
    /\ selectedUser' =
        IF selectedUser \in MemberIds(teamMembers') THEN selectedUser ELSE NoUser
    /\ UNCHANGED <<now, tz, tasks, activeFilter, lastClick, reclicked, newTask,
                   attachments, batches, addTask, db_tasks, db_task_attachments,
                   consoleError, showChat, messages, newMessage, loads, send,
                   chat_messages, documentHidden, presenceCalls, ticks, logout,
                   pageVars>>
    /\ UNCHANGED <<authUser, checkAuth, user_presence, currentPage,
                   currentUserId, chatPoll, rosterTicks, rosterAuth>>

\* loadTeamMembers: the user_presence select resolves, with the rows (policy
\* "Users can view all presence") or without data: setTeamMembers(members)
\* on the page if it is still mounted
RosterPresence(c, presenceData) ==
    /\ c \in rosterCalls
    /\ c.stage = "presence"
    /\ presenceData \in {PresenceData(VisiblePresence), NoPresenceData}
    /\ rosterCalls' = rosterCalls \ {c}
    /\ teamMembers' =
        IF c.page = "employees" /\ currentPage = "employees"
        THEN Employees_members(c.users, presenceData) ELSE teamMembers
    /\ dashTeamMembers' =
        IF c.page = "dashboard" /\ currentPage = "dashboard"
        THEN Dashboard_members(c.users, presenceData) ELSE dashTeamMembers
    /\ UNCHANGED rosterFrame
    /\ UNCHANGED <<authUser, checkAuth, user_presence, currentPage,
                   currentUserId, chatPoll, rosterTicks, rosterAuth>>

IdleRoster ==
    /\ dashTeamMembers = <<>>
    /\ rosterCalls = {}
    /\ rosterTicks = 0
    /\ rosterAuth = "idle"

-----------------------------------------------------------------------------
(* Calendar page *)

MaxMonth == 1       \* the displayed month ranges over 0..MaxMonth
MaxEvents == 2      \* handleAddEvent is submitted while the table has fewer rows

DaysInMonth == 2    \* getDaysInMonth: a month of the model has this many days

NoDate == -1        \* selectedDate: null
Months == 0..MaxMonth
MonthDays == 1..DaysInMonth
EventTitles == {"", "E"}

EventTypes == {"Meeting", "Leave", "Personal"}
Links == {"", "L"}
NullLink == "null"  \* meeting_link: null

\* the newEvent form; notes are carried along unread
EmptyEvent == [title |-> "", event_type |-> "Meeting", meeting_link |-> ""]

\* selected and id are history: the selectedDate the handler was submitted
\* with, and the id the backend gave the row
IdleAddEvent == [pc |-> "idle", result |-> "none", user_id |-> NoUser,
                 title |-> "", event_type |-> "Meeting",
                 meeting_link |-> NullLink, event_date |-> NoDate,
                 selected |-> NoDate, id |-> 0]

\* the days of the model's calendar, numbered through the months
DayNumber(month, day) == month * DaysInMonth + day

\* the zone's UTC offset at the midnight that begins day n
OffsetOn(n) == IF summerFrom # NoDate /\ n >= summerFrom THEN tz + 1 ELSE tz

\* the zones of the clients: without summer time, or with summer time from
\* some day of the calendar on
SummerStarts == {NoDate} \cup 2..DayNumber(MaxMonth, DaysInMonth)

\* new Date(year, month, day): the instant of that day's midnight in the
\* client's zone
NewDate(month, day) ==
    DayNumber(month, day) * HoursPerDay - OffsetOn(DayNumber(month, day))

\* d.toISOString().split('T')[0]: the date of the instant in UTC
ISODate(t) == t \div HoursPerDay

\* what select().order('event_date', {ascending: true}) can return: the
\* rows the caller may read (policy "Users can view all events": TO
\* authenticated) by date, rows of one date in any order
OrderedByEventDate(rows) ==
    {s \in [1..Cardinality(rows) -> rows] :
        /\ \A i, j \in 1..Cardinality(rows) : i < j =>
                s[i] # s[j] /\ s[i].event_date <= s[j].event_date}

VisibleEvents == IF authUser = NoUser THEN {} ELSE calendar_events

\* events.filter(e => e.event_date === dateStr) for a day of a month
EventsOn(month, day, evs) ==
    {evs[i] : i \in {k \in 1..Len(evs) : evs[k].event_date = ISODate(NewDate(month, day))}}

\* getEventsForDate(day): the events of a day of the displayed month
getEventsForDate(day) == EventsOn(currentDate, day, events)

\* Calendar checkAuth: getUser() resolves with no user: onNavigate('login')
CalendarCheckAuthNoUser ==
    /\ calAuth = "getUser"
    /\ authUser = NoUser
    /\ calAuth' = "done"
    /\ currentPage' = "login"
    /\ UNCHANGED calFrame
    /\ UNCHANGED <<tz, authUser, consoleError, calUserId, currentDate, events,
                   showModal, selectedDate, newEvent, addEvent, calendar_events>>

\* Calendar checkAuth: getUser() resolves with the user:
\* setCurrentUserId(user.id), then loadEvents() is sent
CalendarCheckAuthUser ==
    /\ calAuth = "getUser"
    /\ authUser # NoUser
    /\ calAuth' = "loadEvents"
    /\ calUserId' = IF currentPage = "calendar" THEN authUser ELSE calUserId
    /\ UNCHANGED calFrame
    /\ UNCHANGED <<tz, currentPage, authUser, consoleError, currentDate, events,
                   showModal, selectedDate, newEvent, addEvent, calendar_events>>

\* checkAuth's loadEvents() resolves with the rows: setEvents(data || [])
CalendarLoadEventsOk(data) ==
    /\ calAuth = "loadEvents"
    /\ data \in OrderedByEventDate(VisibleEvents)
    /\ calAuth' = "done"
    /\ events' = IF currentPage = "calendar" THEN data ELSE events
    /\ UNCHANGED calFrame
    /\ UNCHANGED <<tz, currentPage, authUser, consoleError, calUserId,
                   currentDate, showModal, selectedDate, newEvent, addEvent,
                   calendar_events>>

\* checkAuth's loadEvents() resolves with an error: console.error, return
CalendarLoadEventsFails ==
    /\ calAuth = "loadEvents"
    /\ calAuth' = "done"
    /\ consoleError' = "Error loading events:"
    /\ UNCHANGED calFrame
    /\ UNCHANGED <<tz, currentPage, authUser, calUserId, currentDate, events,
                   showModal, selectedDate, newEvent, addEvent, calendar_events>>

previousMonth ==
    /\ currentPage = "calendar"
    /\ currentDate > 0
    /\ currentDate' = currentDate - 1
    /\ UNCHANGED calFrame
    /\ UNCHANGED <<tz, currentPage, authUser, consoleError, calAuth, calUserId,
                   events, showModal, selectedDate, newEvent, addEvent,
                   calendar_events>>

nextMonth ==
    /\ currentPage = "calendar"
    /\ currentDate < MaxMonth
    /\ currentDate' = currentDate + 1
    /\ UNCHANGED calFrame
    /\ UNCHANGED <<tz, currentPage, authUser, consoleError, calAuth, calUserId,
                   events, showModal, selectedDate, newEvent, addEvent,
                   calendar_events>>

\* a day cell of the displayed month is clicked
openDateModal(day) ==
    /\ currentPage = "calendar"
    /\ day \in MonthDays
    /\ ~showModal
    /\ selectedDate' = NewDate(currentDate, day)
    /\ showModal' = TRUE
    /\ UNCHANGED calFrame
    /\ UNCHANGED <<tz, currentPage, authUser, consoleError, calAuth, calUserId,
                   currentDate, events, newEvent, addEvent, calendar_events>>

\* the modal's close button
closeModal ==
    /\ currentPage = "calendar"
    /\ showModal
    /\ showModal' = FALSE
    /\ selectedDate' = NoDate
    /\ newEvent' = EmptyEvent
    /\ UNCHANGED calFrame
    /\ UNCHANGED <<tz, currentPage, authUser, consoleError, calAuth, calUserId,
                   currentDate, events, addEvent, calendar_events>>

\* the title input of the modal's form
SetEventTitle(v) ==
    /\ currentPage = "calendar"
    /\ showModal /\ selectedDate # NoDate
    /\ v \in EventTitles
    /\ newEvent.title # v
    /\ newEvent' = [newEvent EXCEPT !.title = v]
    /\ UNCHANGED calFrame
    /\ UNCHANGED <<tz, currentPage, authUser, consoleError, calAuth, calUserId,
                   currentDate, events, showModal, selectedDate, addEvent,
                   calendar_events>>

\* the type select of the modal's form
SetEventType(v) ==
    /\ currentPage = "calendar"
    /\ showModal /\ selectedDate # NoDate
    /\ v \in EventTypes
    /\ newEvent.event_type # v
    /\ newEvent' = [newEvent EXCEPT !.event_type = v]
    /\ UNCHANGED calFrame
    /\ UNCHANGED <<tz, currentPage, authUser, consoleError, calAuth, calUserId,
                   currentDate, events, showModal, selectedDate, addEvent,
                   calendar_events>>

\* the meeting link input, rendered while the type is 'Meeting'
SetMeetingLink(v) ==
    /\ currentPage = "calendar"
    /\ showModal /\ selectedDate # NoDate
    /\ newEvent.event_type = "Meeting"
    /\ v \in Links
    /\ newEvent.meeting_link # v
    /\ newEvent' = [newEvent EXCEPT !.meeting_link = v]
    /\ UNCHANGED calFrame
    /\ UNCHANGED <<tz, currentPage, authUser, consoleError, calAuth, calUserId,
                   currentDate, events, showModal, selectedDate, addEvent,
                   calendar_events>>

\* newEvent.meeting_link || null
LinkOrNull(link) == IF link = "" THEN NullLink ELSE link

\* handleAddEvent's guard (line 98)
EventComplete == selectedDate # NoDate /\ newEvent.title # ""

\* the modal's form is submitted: handleAddEvent up to its first await
handleAddEvent ==
    /\ currentPage = "calendar"
    /\ showModal /\ selectedDate # NoDate
    /\ addEvent.pc = "idle"
    /\ Cardinality(calendar_events) < MaxEvents
    /\ addEvent' =
        IF EventComplete
        THEN [pc |-> "insert", result |-> "none", user_id |-> calUserId,
              title |-> newEvent.title, event_type |-> newEvent.event_type,
              meeting_link |-> LinkOrNull(newEvent.meeting_link),
              event_date |-> ISODate(selectedDate),
              selected |-> selectedDate, id |-> 0]
        ELSE [IdleAddEvent EXCEPT !.result = "returned"]
    /\ UNCHANGED calFrame
    /\ UNCHANGED <<tz, currentPage, authUser, consoleError, calAuth, calUserId,
                   currentDate, events, showModal, selectedDate, newEvent,
                   calendar_events>>

NewEventRow ==
    [id |-> Cardinality(calendar_events) + 1, user_id |-> addEvent.user_id,
     title |-> addEvent.title, event_type |-> addEvent.event_type,
     meeting_link |-> addEvent.meeting_link,
     event_date |-> addEvent.event_date]

\* the backend accepts the insert (policy "Users can create own events":
\* auth.uid() = user_id); loadEvents() is sent
InsertEventOk ==
    /\ addEvent.pc = "insert"
    /\ authUser # NoUser
    /\ addEvent.user_id = authUser
    /\ calendar_events' = calendar_events \cup {NewEventRow}
    /\ addEvent' = [addEvent EXCEPT !.pc = "loadEvents", !.id = NewEventRow.id]
    /\ UNCHANGED calFrame
    /\ UNCHANGED <<tz, currentPage, authUser, consoleError, calAuth, calUserId,
                   currentDate, events, showModal, selectedDate, newEvent>>

\* the insert is rejected: console.error, return
InsertEventFails ==
    /\ addEvent.pc = "insert"
    /\ addEvent' = [addEvent EXCEPT !.pc = "idle", !.result = "failed"]
    /\ consoleError' = "Error creating event:"
    /\ UNCHANGED calFrame
    /\ UNCHANGED <<tz, currentPage, authUser, calAuth, calUserId, currentDate,
                   events, showModal, selectedDate, newEvent, calendar_events>>

\* handleAddEvent's loadEvents() resolves with the rows: setEvents, then
\* closeModal()
AddEventLoadOk(data) ==
    /\ addEvent.pc = "loadEvents"
    /\ data \in OrderedByEventDate(VisibleEvents)
    /\ addEvent' = [addEvent EXCEPT !.pc = "idle", !.result = "added"]
    /\ IF currentPage = "calendar"
       THEN /\ events' = data
            /\ showModal' = FALSE
            /\ selectedDate' = NoDate
            /\ newEvent' = EmptyEvent
       ELSE UNCHANGED <<events, showModal, selectedDate, newEvent>>
    /\ UNCHANGED calFrame
    /\ UNCHANGED <<tz, currentPage, authUser, consoleError, calAuth, calUserId,
                   currentDate, calendar_events>>

\* handleAddEvent's loadEvents() resolves with an error: console.error;
\* closeModal() still runs
AddEventLoadFails ==
    /\ addEvent.pc = "loadEvents"
    /\ addEvent' = [addEvent EXCEPT !.pc = "idle", !.result = "notLoaded"]
    /\ consoleError' = "Error loading events:"
    /\ IF currentPage = "calendar"
       THEN /\ showModal' = FALSE
            /\ selectedDate' = NoDate
            /\ newEvent' = EmptyEvent
       ELSE UNCHANGED <<showModal, selectedDate, newEvent>>
    /\ UNCHANGED calFrame
    /\ UNCHANGED <<tz, currentPage, authUser, calAuth, calUserId, currentDate,
                   events, calendar_events>>

IdleCalendar ==
    /\ calAuth = "idle"
    /\ calUserId = NoUser
    /\ currentDate = 0
    /\ events = <<>>
    /\ showModal = FALSE
    /\ selectedDate = NoDate
    /\ newEvent = EmptyEvent
    /\ addEvent = IdleAddEvent
    /\ calendar_events = {}
    /\ summerFrom = NoDate

-----------------------------------------------------------------------------
(* Calendar page: the month grid *)

FirstYear == 2023   \* the reference dates lie in the years from this one on
MaxYears == 2       \* ... up to FirstYear + MaxYears

Years == FirstYear..(FirstYear + MaxYears)

IsLeapYear(y) == (y % 4 = 0 /\ y % 100 # 0) \/ y % 400 = 0

\* the days of month m (0 = January) of year y
MonthLength(y, m) ==
    IF m = 1 THEN (IF IsLeapYear(y) THEN 29 ELSE 28)
    ELSE IF m \in {3, 5, 8, 10} THEN 30 ELSE 31

LeapDaysBefore(y) == (y - 1) \div 4 - (y - 1) \div 100 + (y - 1) \div 400

\* the days from 1 January 1970 to 1 January of year y
DaysBeforeYear(y) == 365 * (y - 1970) + LeapDaysBefore(y) - LeapDaysBefore(1970)

RECURSIVE DaysBeforeMonth(_, _)
DaysBeforeMonth(y, m) ==
    IF m = 0 THEN 0 ELSE DaysBeforeMonth(y, m - 1) + MonthLength(y, m - 1)

\* MakeDay of the Date constructor: a month outside 0..11 carries into the
\* year, a date outside the month carries into the neighbouring months
MakeDay(year, month, date) ==
    DaysBeforeYear(year + month \div 12)
        + DaysBeforeMonth(year + month \div 12, month % 12) + date - 1

\* the local year, month and date of a day
DateFromDay(n) ==
    LET y == CHOOSE yy \in (FirstYear - 1)..(FirstYear + MaxYears + 1) :
                 DaysBeforeYear(yy) <= n /\ n < DaysBeforeYear(yy + 1)
        m == CHOOSE mm \in 0..11 :
                 /\ DaysBeforeMonth(y, mm) <= n - DaysBeforeYear(y)
                 /\ n - DaysBeforeYear(y) < DaysBeforeMonth(y, mm) + MonthLength(y, mm)
    IN  [year |-> y, month |-> m,
         date |-> n - DaysBeforeYear(y) - DaysBeforeMonth(y, m) + 1]

\* new Date(year, month, date), read back with getFullYear(), getMonth()
\* and getDate()
JsDate(year, month, date) == DateFromDay(MakeDay(year, month, date))

\* d.getDay(): 0 is Sunday; 1 January 1970 was a Thursday
getDay(d) == (MakeDay(d.year, d.month, d.date) + 4) % 7

\* the values new Date() can have
Dates ==
    {d \in [year : Years, month : 0..11, date : 1..31] :
        d.date <= MonthLength(d.year, d.month)}

getDaysInMonth(date) ==
    LET firstDay == JsDate(date.year, date.month, 1)
        lastDay == JsDate(date.year, date.month + 1, 0)
    IN  [daysInMonth |-> lastDay.date, startingDayOfWeek |-> getDay(firstDay)]

NextMonthKeepsDate(date) == JsDate(date.year, date.month + 1, date.date)

\* the date previousMonth and nextMonth give setCurrentDate
PreviousMonthDate(date) == JsDate(date.year, date.month - 1, 1)
NextMonthDate(date) == JsDate(date.year, date.month + 1, 1)

\* the cells of the rendered grid after the day names: 0 is a blank cell, a
\* positive number the day cell of that day
Grid(date) ==
    [i \in 1..getDaysInMonth(date).startingDayOfWeek |-> 0]
        \o [i \in 1..getDaysInMonth(date).daysInMonth |-> i]

\* the month buttons, with the reference date as the Date it is
ClickPreviousMonth ==
    /\ currentPage = "calendar"
    /\ PreviousMonthDate(currentDate).year \in Years
    /\ currentDate' = PreviousMonthDate(currentDate)
    /\ UNCHANGED calFrame
    /\ UNCHANGED <<tz, currentPage, authUser, consoleError, calAuth, calUserId,
                   events, showModal, selectedDate, newEvent, addEvent,
                   calendar_events>>

ClickNextMonth ==
    /\ currentPage = "calendar"
    /\ NextMonthDate(currentDate).year \in Years
    /\ currentDate' = NextMonthDate(currentDate)
    /\ UNCHANGED calFrame
    /\ UNCHANGED <<tz, currentPage, authUser, consoleError, calAuth, calUserId,
                   events, showModal, selectedDate, newEvent, addEvent,
                   calendar_events>>

-----------------------------------------------------------------------------
(* Settings page *)

MaxKeys == 1            \* the toggles the user clicks: the first MaxKeys of them
MaxSettingsCalls == 2   \* updateSettings is called while fewer upserts are in flight
MaxPwLen == 7           \* the passwords typed have 5..MaxPwLen characters

MinPasswordLength == 6  \* newPassword.length < 6 (line 109)

SettingKeySeq ==
    <<"notification_task_assigned", "notification_task_completed",
      "notification_mentions", "notification_chat_messages",
      "sound_notifications", "sound_chat">>
SettingKeys == {SettingKeySeq[i] : i \in 1..Len(SettingKeySeq)}
ToggledKeys == {SettingKeySeq[i] : i \in 1..MaxKeys}

\* the initial value of useState<UserSettings>, and the columns' defaults
DefaultSettings == [k \in SettingKeys |-> TRUE]

\* a password of n characters
Pw(n) == [i \in 1..n |-> "x"]
Passwords == {Pw(n) : n \in 5..MaxPwLen}

NoMessage == [type |-> "none", text |-> ""]
ErrorMessage(text) == [type |-> "error", text |-> text]
SuccessMessage(text) == [type |-> "success", text |-> text]

NoUpsert == [result |-> "none", before |-> DefaultSettings, values |-> DefaultSettings]

IdlePwCall == [pc |-> "idle", result |-> "none", password |-> <<>>]

\* the user_settings row of a user, as a set (empty: no row)
SettingsRows(userId) == {r \in user_settings : r.user_id = userId}

\* the table after an insert or upsert of a user's row
WithSettings(userId, values) ==
    {r \in user_settings : r.user_id # userId}
    \cup {[user_id |-> userId, values |-> values]}

\* Settings checkAuth: getUser() resolves with no user: onNavigate('login')
SettingsCheckAuthNoUser ==
    /\ settingsAuth = "getUser"
    /\ authUser = NoUser
    /\ settingsAuth' = "done"
    /\ currentPage' = "login"
    /\ UNCHANGED setFrame
    /\ UNCHANGED <<authUser, consoleError, settingsUserId, settings,
                   newPassword, confirmPassword, message, settingsCalls,
                   pwCall, user_settings, password, lastUpsert>>

\* Settings checkAuth: getUser() resolves with the user:
\* setCurrentUserId(user.id), then loadSettings(user.id) sends its select
SettingsCheckAuthUser ==
    /\ settingsAuth = "getUser"
    /\ authUser # NoUser
    /\ settingsAuth' = "loadSettings"
    /\ settingsUserId' = IF currentPage = "settings" THEN authUser ELSE settingsUserId
    /\ UNCHANGED setFrame
    /\ UNCHANGED <<currentPage, authUser, consoleError, settings, newPassword,
                   confirmPassword, message, settingsCalls, pwCall,
                   user_settings, password, lastUpsert>>

\* loadSettings: the select resolves with an error: console.error, return
LoadSettingsFails ==
    /\ settingsAuth = "loadSettings"
    /\ settingsAuth' = "done"
    /\ consoleError' = "Error loading settings:"
    /\ UNCHANGED setFrame
    /\ UNCHANGED <<currentPage, authUser, settingsUserId, settings,
                   newPassword, confirmPassword, message, settingsCalls,
                   pwCall, user_settings, password, lastUpsert>>

\* loadSettings: the select resolves with the user's row: setSettings(data)
LoadSettingsData ==
    /\ settingsAuth = "loadSettings"
    /\ authUser # NoUser
    /\ SettingsRows(authUser) # {}
    /\ settingsAuth' = "done"
    /\ settings' =
        IF currentPage = "settings"
        THEN (CHOOSE r \in SettingsRows(authUser) : TRUE).values ELSE settings
    /\ UNCHANGED setFrame
    /\ UNCHANGED <<currentPage, authUser, consoleError, settingsUserId,
                   newPassword, confirmPassword, message, settingsCalls,
                   pwCall, user_settings, password, lastUpsert>>

\* loadSettings: the select resolves with no row: the insert of the
\* defaults (the settings of the first render) is sent
LoadSettingsNoData ==
    /\ settingsAuth = "loadSettings"
    /\ SettingsRows(authUser) = {}
    /\ settingsAuth' = "insertDefaults"
    /\ UNCHANGED setFrame
    /\ UNCHANGED <<currentPage, authUser, consoleError, settingsUserId,
                   settings, newPassword, confirmPassword, message,
                   settingsCalls, pwCall, user_settings, password, lastUpsert>>

InsertDefaultsCurrent ==
    /\ settingsAuth = "insertDefaults"
    /\ authUser # NoUser
    /\ SettingsRows(authUser) = {}
    /\ settingsAuth' = "done"
    /\ user_settings' = WithSettings(authUser, settings)
    /\ UNCHANGED setFrame
    /\ UNCHANGED <<currentPage, authUser, consoleError, settingsUserId,
                   settings, newPassword, confirmPassword, message,
                   settingsCalls, pwCall, password, lastUpsert>>

\* the insert of the defaults is applied (policy "Users can insert own
\* settings"; user_id is the primary key)
InsertDefaultsOk ==
    /\ settingsAuth = "insertDefaults"
    /\ authUser # NoUser
    /\ SettingsRows(authUser) = {}
    /\ settingsAuth' = "done"
    /\ user_settings' = WithSettings(authUser, DefaultSettings)
    /\ UNCHANGED setFrame
    /\ UNCHANGED <<currentPage, authUser, consoleError, settingsUserId,
                   settings, newPassword, confirmPassword, message,
                   settingsCalls, pwCall, password, lastUpsert>>

\* the insert of the defaults is rejected; its result is not read
InsertDefaultsFails ==
    /\ settingsAuth = "insertDefaults"
    /\ settingsAuth' = "done"
    /\ UNCHANGED setFrame
    /\ UNCHANGED <<currentPage, authUser, consoleError, settingsUserId,
                   settings, newPassword, confirmPassword, message,
                   settingsCalls, pwCall, user_settings, password, lastUpsert>>

\* a toggle is clicked: updateSettings(key, !settings[key]) up to its await
updateSettings(key) ==
    /\ currentPage = "settings"
    /\ key \in ToggledKeys
    /\ Cardinality(settingsCalls) < MaxSettingsCalls
    /\ LET updatedSettings == [settings EXCEPT ![key] = ~settings[key]]
               \* before: the toggles when the operation started (history)
           call == [user_id |-> settingsUserId, values |-> updatedSettings,
                    before |-> settings]
       IN  /\ call \notin settingsCalls
           /\ settings' = updatedSettings
           /\ settingsCalls' = settingsCalls \cup {call}
    /\ UNCHANGED setFrame
    /\ UNCHANGED <<currentPage, authUser, consoleError, settingsAuth,
                   settingsUserId, newPassword, confirmPassword, message,
                   pwCall, user_settings, password, lastUpsert>>

\* the backend applies the upsert (policies "Users can insert own settings"
\* and "Users can update own settings": auth.uid() = user_id)
UpsertSettingsOk(c) ==
    /\ c \in settingsCalls
    /\ authUser # NoUser
    /\ c.user_id = authUser
    /\ settingsCalls' = settingsCalls \ {c}
    /\ user_settings' = WithSettings(c.user_id, c.values)
    /\ lastUpsert' = [result |-> "ok", before |-> c.before, values |-> c.values]
    /\ UNCHANGED setFrame
    /\ UNCHANGED <<currentPage, authUser, consoleError, settingsAuth,
                   settingsUserId, settings, newPassword, confirmPassword,
                   message, pwCall, password>>

\* the upsert is rejected: console.error and setMessage
UpsertSettingsFails(c) ==
    /\ c \in settingsCalls
    /\ settingsCalls' = settingsCalls \ {c}
    /\ lastUpsert' = [result |-> "rejected", before |-> c.before, values |-> c.values]
    /\ consoleError' = "Error updating settings:"
    /\ message' =
        IF currentPage = "settings" THEN ErrorMessage("Failed to update settings")
        ELSE message
    /\ UNCHANGED setFrame
    /\ UNCHANGED <<currentPage, authUser, settingsAuth, settingsUserId,
                   settings, newPassword, confirmPassword, pwCall,
                   user_settings, password>>

\* the password inputs
SetNewPassword(v) ==
    /\ currentPage = "settings"
    /\ v \in Passwords
    /\ newPassword # v
    /\ newPassword' = v
    /\ UNCHANGED setFrame
    /\ UNCHANGED <<currentPage, authUser, consoleError, settingsAuth,
                   settingsUserId, settings, confirmPassword, message,
                   settingsCalls, pwCall, user_settings, password, lastUpsert>>

SetConfirmPassword(v) ==
    /\ currentPage = "settings"
    /\ v \in Passwords
    /\ confirmPassword # v
    /\ confirmPassword' = v
    /\ UNCHANGED setFrame
    /\ UNCHANGED <<currentPage, authUser, consoleError, settingsAuth,
                   settingsUserId, settings, newPassword, message,
                   settingsCalls, pwCall, user_settings, password, lastUpsert>>

PasswordMismatchIgnored == FALSE

\* updatePassword's first check (line 104)
PasswordMismatch == newPassword # confirmPassword

PasswordTooShortNever == FALSE

\* updatePassword's second check (line 109)
PasswordTooShort == Len(newPassword) < MinPasswordLength

\* the password form is submitted: updatePassword up to its await
updatePassword ==
    /\ currentPage = "settings"
    /\ pwCall.pc = "idle"
    /\ IF PasswordMismatch
       THEN /\ message' = ErrorMessage("Passwords do not match!")
            /\ pwCall' = [IdlePwCall EXCEPT !.result = "mismatch"]
       ELSE IF PasswordTooShort
       THEN /\ message' = ErrorMessage("Password must be at least 6 characters!")
            /\ pwCall' = [IdlePwCall EXCEPT !.result = "short"]
       ELSE /\ message' = NoMessage
            /\ pwCall' = [pc |-> "updateUser", result |-> "none",
                          password |-> newPassword]
    /\ UNCHANGED setFrame
    /\ UNCHANGED <<currentPage, authUser, consoleError, settingsAuth,
                   settingsUserId, settings, newPassword, confirmPassword,
                   settingsCalls, user_settings, password, lastUpsert>>

\* auth.updateUser({password}) succeeds: the success message, both fields
\* cleared
UpdateUserOk ==
    /\ pwCall.pc = "updateUser"
    /\ authUser # NoUser
    /\ password' = pwCall.password
    /\ pwCall' = [pwCall EXCEPT !.pc = "idle", !.result = "updated"]
    /\ IF currentPage = "settings"
       THEN /\ message' = SuccessMessage("Password updated successfully!")
            /\ newPassword' = <<>>
            /\ confirmPassword' = <<>>
       ELSE UNCHANGED <<message, newPassword, confirmPassword>>
    /\ UNCHANGED setFrame
    /\ UNCHANGED <<currentPage, authUser, consoleError, settingsAuth,
                   settingsUserId, settings, settingsCalls, user_settings, lastUpsert>>

\* auth.updateUser({password}) fails: setMessage(error.message)
UpdateUserFails ==
    /\ pwCall.pc = "updateUser"
    /\ pwCall' = [pwCall EXCEPT !.pc = "idle", !.result = "failed"]
    /\ message' =
        IF currentPage = "settings" THEN ErrorMessage("error.message") ELSE message
    /\ UNCHANGED setFrame
    /\ UNCHANGED <<currentPage, authUser, consoleError, settingsAuth,
                   settingsUserId, settings, newPassword, confirmPassword,
                   settingsCalls, user_settings, password, lastUpsert>>

IdleSettings ==
    /\ settingsAuth = "idle"
    /\ settingsUserId = NoUser
    /\ settings = DefaultSettings
    /\ newPassword = <<>>
    /\ confirmPassword = <<>>
    /\ message = NoMessage
    /\ settingsCalls = {}
    /\ lastUpsert = NoUpsert
    /\ pwCall = IdlePwCall
    /\ user_settings = {}
    /\ password = <<>>

-----------------------------------------------------------------------------
(* My Tasks page: loading the tasks *)

\* the rows of loadMyTasks' select: .eq('assigned_to', userId), for a caller
\* who may read them (policy "Users can view all tasks": TO authenticated)
AssignedTo(userId) ==
    IF authUser = NoUser THEN <<>>
    ELSE SelectSeq(db_tasks, LAMBDA t : t.assigned_to = userId)

\* My Tasks checkAuth: getUser() resolves with no user: onNavigate('login')
MyTasksCheckAuthNoUser ==
    /\ myTasksAuth = "getUser"
    /\ authUser = NoUser
    /\ myTasksAuth' = "done"
    /\ currentPage' = "login"
    /\ UNCHANGED mineFrame
    /\ UNCHANGED <<tasks, authUser, consoleError, myUserId>>

\* My Tasks checkAuth: getUser() resolves with the user:
\* setCurrentUserId(user.id), then loadMyTasks(user.id) sends its select
MyTasksCheckAuthUser ==
    /\ myTasksAuth = "getUser"
    /\ authUser # NoUser
    /\ myTasksAuth' = "loadMyTasks"
    /\ myUserId' = authUser
    /\ UNCHANGED mineFrame
    /\ UNCHANGED <<currentPage, tasks, authUser, consoleError>>

\* loadMyTasks: the select resolves with the rows: setTasks(data || [])
LoadMyTasksOk(data) ==
    /\ myTasksAuth = "loadMyTasks"
    /\ data \in OrderedByDueDate(AssignedTo(myUserId))
    /\ myTasksAuth' = "done"
    /\ tasks' = IF currentPage = "myTasks" THEN data ELSE tasks
    /\ UNCHANGED mineFrame
    /\ UNCHANGED <<currentPage, authUser, consoleError, myUserId>>

\* loadMyTasks: the select resolves with an error: console.error, return
LoadMyTasksFails ==
    /\ myTasksAuth = "loadMyTasks"
    /\ myTasksAuth' = "done"
    /\ consoleError' = "Error loading tasks:"
    /\ UNCHANGED mineFrame
    /\ UNCHANGED <<currentPage, tasks, authUser, myUserId>>

IdleMyTasks ==
    /\ myTasksAuth = "idle"
    /\ myUserId = NoUser

IdlePages == IdleCalendar /\ IdleSettings /\ IdleMyTasks

-----------------------------------------------------------------------------
(* The specifications *)

InitFilter ==
    /\ now \in Instants
    /\ tz \in Offsets
    /\ currentPage \in TaskPages
    /\ tasks = <<>>
    /\ activeFilter = "all"
    /\ lastClick = "none"
    /\ reclicked = FALSE

NextFilter ==
    \/ \E data \in SortedTaskLists : LoadTasks(data)
    \/ \E X \in Tiles : ClickTile(X)
    \/ ShowAllTasks
    \/ \E page \in TaskPages : Navigate(page)

Init ==
    InitFilter /\ IdleTask /\ IdleChat /\ IdlePresence /\ IdleRoster /\ IdlePages

Next == NextFilter

Spec == Init /\ [][Next]_vars

\* the two task pages with any task list loaded, due dates that do not parse
\* included
NextCounts ==
    \/ \E data \in AnyTaskLists : LoadTasks(data)
    \/ \E X \in Tiles : ClickTile(X)
    \/ ShowAllTasks
    \/ \E page \in TaskPages : Navigate(page)

SpecCounts == Init /\ [][NextCounts]_vars

\* the Dashboard mounted and signed in, nothing loaded yet
InitTask ==
    /\ IdlePages
    /\ IdleTask
    /\ now = HoursPerDay
    /\ tz = 0
    /\ currentPage = "dashboard"
    /\ tasks = <<>>
    /\ activeFilter = "all"
    /\ lastClick = "none"
    /\ reclicked = FALSE
    /\ IdleChat
    /\ IdlePresence
    /\ IdleRoster

NextTask ==
    \/ \E v \in Titles : SetTitle(v)
    \/ \E v \in DueInputs : SetDueDate(v)
    \/ \E v \in Assignees : SetAssignedTo(v)
    \/ \E files \in FileLists : handleFileUpload(files)
    \/ \E b \in 1..MaxBatches, f \in Files :
            ReaderOnload(b, f) /\ Len(attachments') <= MaxStaged
    \/ \E index \in DOMAIN attachments : removeAttachment(index)
    \/ SessionEnds
    \/ SubmitAddTask
    \/ GetUserResolves
    \/ InsertTaskFails
    \/ InsertTaskOk
    \/ UploadFails
    \/ UploadOk
    \/ InsertAttachmentOk
    \/ InsertAttachmentFails
    \/ \E data \in OrderedByDueDate(db_tasks) : ReloadTasksOk(data)
    \/ ReloadTasksFails

SpecTask == InitTask /\ [][NextTask]_vars

\* the 'New Task' form of the Dashboard, where files are selected, read and
\* removed
NextStaging ==
    \/ \E v \in Titles : SetTitle(v)
    \/ \E v \in Assignees : SetAssignedTo(v)
    \/ \E files \in FileLists : handleFileUpload(files)
    \/ \E b \in 1..MaxBatches, f \in Files : ReaderOnload(b, f)
    \/ \E index \in DOMAIN attachments : removeAttachment(index)

SpecStaging == InitTask /\ [][NextStaging]_vars

\* the Employees page just mounted, checkAuth's getUser() in flight
InitChat ==
    /\ IdlePages
    /\ IdleChat
    /\ IdlePresence
    /\ IdleRoster
    /\ IdleTask
    /\ now = HoursPerDay
    /\ tz = 0
    /\ currentPage = "employees"
    /\ tasks = <<>>
    /\ activeFilter = "all"
    /\ lastClick = "none"
    /\ reclicked = FALSE

NextChat ==
    \/ CheckAuthResolves
    \/ LoadTeamMembersResolves
    \/ \E user \in Users : openChat(user)
    \/ closeChat
    \/ ChatPollTick
    \/ \E text \in Texts : TypeMessage(text)
    \/ \E c \in loads : LoadMessagesFails(c)
    \/ \E c \in loads : \E data \in OrderedByCreatedAt(ThreadRows(c.uid, c.other)) :
            LoadMessagesSelect(c, data)
    \/ \E c \in loads : LoadMessagesSetMessages(c)
    \/ \E c \in loads : LoadMessagesUpdate(c)
    \/ \E c \in loads : LoadMessagesUpdateFails(c)
    \/ handleSendMessage
    \/ SendInsertOk
    \/ SendInsertFails
    \/ \E sender \in Others : OtherSends(sender)

SpecChat == InitChat /\ [][NextChat]_vars

\* the Dashboard just mounted, checkAuth's getUser() in flight; user B has
\* a presence row
InitPresence ==
    /\ IdlePages
    /\ IdleTask
    /\ IdleChat
    /\ now = HoursPerDay
    /\ tz = 0
    /\ currentPage = "dashboard"
    /\ tasks = <<>>
    /\ activeFilter = "all"
    /\ lastClick = "none"
    /\ reclicked = FALSE
    /\ documentHidden = FALSE
    /\ checkAuth = "getUser"
    /\ presenceCalls = {}
    /\ ticks = 0
    /\ logout = "idle"
    /\ user_presence = {[user_id |-> "B", is_online |-> FALSE, last_seen |-> 0]}
    /\ IdleRoster

NextPresence ==
    \/ MountDashboard
    \/ CheckAuthNoUser
    \/ CheckAuthUser
    \/ \E data \in OrderedByDueDate(db_tasks) : CheckAuthLoadTasks(data)
    \/ \E c \in presenceCalls : PresenceGetUser(c)
    \/ \E c \in presenceCalls : PresenceUpsertOk(c)
    \/ \E c \in presenceCalls : PresenceUpsertFails(c)
    \/ PresenceTick
    \/ handleVisibilityChange
    \/ handleBeforeUnload
    \/ NavigateAway
    \/ handleLogout
    \/ LogoutSignOut
    \/ TimePasses

SpecPresence == InitPresence /\ [][NextPresence]_vars

\* the Dashboard stays mounted and signed in, every presence write is
\* applied, and the only events are changes of the document's visibility
NextVisibility ==
    \/ CheckAuthUser
    \/ \E data \in OrderedByDueDate(db_tasks) : CheckAuthLoadTasks(data)
    \/ \E c \in presenceCalls : PresenceGetUser(c)
    \/ \E c \in presenceCalls : PresenceUpsertOk(c)
    \/ handleVisibilityChange
    \/ TimePasses

SpecVisibility == InitPresence /\ [][NextVisibility]_vars

\* the Dashboard is left by a navigation button or by logging out, and every
\* presence write that is sent is applied
NextUnmount ==
    \/ CheckAuthUser
    \/ \E data \in OrderedByDueDate(db_tasks) : CheckAuthLoadTasks(data)
    \/ \E c \in presenceCalls : PresenceGetUser(c)
    \/ \E c \in presenceCalls : PresenceUpsertOk(c)
    \/ PresenceTick
    \/ handleVisibilityChange
    \/ NavigateAway
    \/ handleLogout
    \/ LogoutSignOut

SpecUnmount == InitPresence /\ [][NextUnmount]_vars

\* the presence tables the roster is loaded against
PresenceTables ==
    SUBSET {[user_id |-> "A", is_online |-> TRUE, last_seen |-> HoursPerDay],
            [user_id |-> "C", is_online |-> FALSE, last_seen |-> 5]}

\* the Employees page or the Dashboard just mounted, with or without a
\* session, its checkAuth's getUser() in flight
InitRoster ==
    /\ IdlePages
    /\ authUser \in {Viewer, NoUser}
    /\ newTask = EmptyTask
    /\ attachments = <<>>
    /\ batches = <<>>
    /\ addTask = IdleAddTask
    /\ db_tasks = <<>>
    /\ db_task_attachments = <<>>
    /\ consoleError = ""
    /\ IdleChat
    /\ now = HoursPerDay
    /\ tz = 0
    /\ tasks = <<>>
    /\ activeFilter = "all"
    /\ lastClick = "none"
    /\ reclicked = FALSE
    /\ documentHidden = FALSE
    /\ presenceCalls = {}
    /\ ticks = 0
    /\ logout = "idle"
    /\ user_presence \in PresenceTables
    /\ dashTeamMembers = <<>>
    /\ rosterCalls = {}
    /\ rosterTicks = 0
    /\ \/ currentPage = "employees" /\ rosterAuth = "getUser" /\ checkAuth = "idle"
       \/ currentPage = "dashboard" /\ rosterAuth = "idle" /\ checkAuth = "getUser"

NextRoster ==
    \/ MountEmployees
    \/ NavigateFromEmployees
    \/ EmployeesCheckAuthNoUser
    \/ EmployeesCheckAuthUser
    \/ RosterTick
    \/ \E c \in rosterCalls : \E users \in ListUsersResults :
            RosterListUsers(c, users)
    \/ \E c \in rosterCalls :
            \E presenceData \in {PresenceData(VisiblePresence), NoPresenceData} :
                RosterPresence(c, presenceData)
    \/ CheckAuthNoUser
    \/ CheckAuthUser
    \/ \E data \in OrderedByDueDate(db_tasks) : CheckAuthLoadTasks(data)
    \/ \E c \in presenceCalls : PresenceGetUser(c)
    \/ \E c \in presenceCalls : PresenceUpsertOk(c)
    \/ \E c \in presenceCalls : PresenceUpsertFails(c)
    \/ NavigateAway

SpecRoster == InitRoster /\ [][NextRoster]_vars

\* the life of one mounted Dashboard or Employees page up to and after its
\* unmount, with its timers and listeners, against an empty presence table
\* and a user list that is either there or not
InitLifecycle == InitRoster /\ user_presence = {}

NextLifecycle ==
    \/ CheckAuthNoUser
    \/ CheckAuthUser
    \/ \E data \in OrderedByDueDate(db_tasks) : CheckAuthLoadTasks(data)
    \/ \E c \in presenceCalls : PresenceGetUser(c)
    \/ \E c \in presenceCalls : PresenceUpsertOk(c)
    \/ \E c \in presenceCalls : PresenceUpsertFails(c)
    \/ PresenceTick
    \/ handleVisibilityChange
    \/ handleBeforeUnload
    \/ NavigateAway
    \/ handleLogout
    \/ LogoutSignOut
    \/ NavigateFromEmployees
    \/ EmployeesCheckAuthNoUser
    \/ EmployeesCheckAuthUser
    \/ RosterTick
    \/ \E c \in rosterCalls : \E users \in {AuthUsers, NoUserList} :
            RosterListUsers(c, users)
    \/ \E c \in rosterCalls : RosterPresence(c, PresenceData(VisiblePresence))

SpecLifecycle == InitLifecycle /\ [][NextLifecycle]_vars

\* the state shared by the starts of the page specifications below: nothing
\* of the Dashboard's forms or of the filter tiles is in use
IdleFilter ==
    /\ now = HoursPerDay
    /\ tasks = <<>>
    /\ activeFilter = "all"
    /\ lastClick = "none"
    /\ reclicked = FALSE

IdleTaskForm ==
    /\ newTask = EmptyTask
    /\ attachments = <<>>
    /\ batches = <<>>
    /\ addTask = IdleAddTask
    /\ db_task_attachments = <<>>
    /\ consoleError = ""

\* a stored row of the signed-in user that differs from the defaults
StoredSettings ==
    [user_id |-> Viewer,
     values |-> [DefaultSettings EXCEPT ![SettingKeySeq[1]] = FALSE]]

\* the Settings page just mounted, with or without a session, its
\* checkAuth's getUser() in flight
InitSettings ==
    /\ IdleFilter
    /\ IdleTaskForm
    /\ IdleChat
    /\ IdlePresence
    /\ IdleRoster
    /\ IdleCalendar
    /\ IdleMyTasks
    /\ tz = 0
    /\ db_tasks = <<>>
    /\ currentPage = "settings"
    /\ authUser \in {Viewer, NoUser}
    /\ settingsAuth = "getUser"
    /\ settingsUserId = NoUser
    /\ settings = DefaultSettings
    /\ newPassword = <<>>
    /\ confirmPassword = <<>>
    /\ message = NoMessage
    /\ settingsCalls = {}
    /\ lastUpsert = NoUpsert
    /\ pwCall = IdlePwCall
    /\ user_settings \in {{}, {StoredSettings}}
    /\ password = Pw(MinPasswordLength)

NextSettings ==
    \/ SettingsCheckAuthNoUser
    \/ SettingsCheckAuthUser
    \/ LoadSettingsFails
    \/ LoadSettingsData
    \/ LoadSettingsNoData
    \/ InsertDefaultsOk
    \/ InsertDefaultsFails
    \/ \E key \in ToggledKeys : updateSettings(key)
    \/ \E c \in settingsCalls : UpsertSettingsOk(c)
    \/ \E c \in settingsCalls : UpsertSettingsFails(c)
    \/ \E v \in Passwords : SetNewPassword(v)
    \/ \E v \in Passwords : SetConfirmPassword(v)
    \/ updatePassword
    \/ UpdateUserOk
    \/ UpdateUserFails

SpecSettings == InitSettings /\ [][NextSettings]_vars

\* the Settings page of a signed-in user whose select and upserts all succeed
InitToggles == InitSettings /\ authUser = Viewer

NextToggles ==
    \/ SettingsCheckAuthUser
    \/ LoadSettingsData
    \/ LoadSettingsNoData
    \/ InsertDefaultsOk
    \/ InsertDefaultsFails
    \/ \E key \in ToggledKeys : updateSettings(key)
    \/ \E c \in settingsCalls : UpsertSettingsOk(c)

SpecToggles == InitToggles /\ [][NextToggles]_vars

ProtectedPages == {"dashboard", "myTasks", "employees", "calendar", "settings"}

\* an event of another user
StoredEvent ==
    [id |-> 1, user_id |-> "B", title |-> "E", event_type |-> "Meeting",
     meeting_link |-> NullLink, event_date |-> 1]

\* a task another user assigned to the signed-in user
StoredTask ==
    [id |-> 1, title |-> "T", assigned_to |-> Viewer, created_by |-> "B",
     due_date |-> "d", status |-> "Not Started"]

\* a protected page just mounted with a session, its checkAuth's getUser()
\* in flight; the tables hold rows written earlier
InitFetch ==
    /\ IdleFilter
    /\ IdleTaskForm
    /\ authUser = Viewer
    /\ db_tasks \in {<<>>, <<StoredTask>>}
    /\ IdleChat
    /\ IdleRoster
    /\ tz = 0
    /\ currentPage \in ProtectedPages
    /\ documentHidden = FALSE
    /\ checkAuth = IF currentPage = "dashboard" THEN "getUser" ELSE "idle"
    /\ presenceCalls = {}
    /\ ticks = 0
    /\ logout = "idle"
    /\ user_presence = {}
    /\ calAuth = IF currentPage = "calendar" THEN "getUser" ELSE "idle"
    /\ calUserId = NoUser
    /\ currentDate = 0
    /\ events = <<>>
    /\ showModal = FALSE
    /\ selectedDate = NoDate
    /\ newEvent = EmptyEvent
    /\ addEvent = IdleAddEvent
    /\ calendar_events \in {{}, {StoredEvent}}
    /\ summerFrom = NoDate
    /\ settingsAuth = IF currentPage = "settings" THEN "getUser" ELSE "idle"
    /\ settingsUserId = NoUser
    /\ settings = DefaultSettings
    /\ newPassword = <<>>
    /\ confirmPassword = <<>>
    /\ message = NoMessage
    /\ settingsCalls = {}
    /\ lastUpsert = NoUpsert
    /\ pwCall = IdlePwCall
    /\ user_settings \in {{}, {StoredSettings}}
    /\ password = Pw(MinPasswordLength)
    /\ myTasksAuth = IF currentPage = "myTasks" THEN "getUser" ELSE "idle"
    /\ myUserId = NoUser

\* every fetch of the five pages, answered with rows or with an error, and
\* the operations that lead to a fetch
NextFetch ==
    \/ CheckAuthUser
    \/ \E c \in presenceCalls : PresenceUpsertOk(c)
    \/ \E c \in presenceCalls : PresenceUpsertFails(c)
    \/ \E data \in OrderedByDueDate(db_tasks) : CheckAuthLoadTasks(data)
    \/ CheckAuthLoadTasksFails
    \/ currentPage = "dashboard" /\ \E v \in Titles : SetTitle(v)
    \/ currentPage = "dashboard" /\ \E v \in DueInputs : SetDueDate(v)
    \/ currentPage = "dashboard" /\ \E v \in Assignees : SetAssignedTo(v)
    \/ currentPage = "dashboard" /\ SubmitAddTask
    \/ GetUserResolves
    \/ InsertTaskOk
    \/ \E data \in OrderedByDueDate(db_tasks) : ReloadTasksOk(data)
    \/ ReloadTasksFails
    \/ MyTasksCheckAuthUser
    \/ \E data \in OrderedByDueDate(AssignedTo(myUserId)) : LoadMyTasksOk(data)
    \/ LoadMyTasksFails
    \/ CalendarCheckAuthUser
    \/ \E data \in OrderedByEventDate(VisibleEvents) : CalendarLoadEventsOk(data)
    \/ CalendarLoadEventsFails
    \/ \E day \in MonthDays : openDateModal(day)
    \/ \E v \in EventTitles : SetEventTitle(v)
    \/ handleAddEvent
    \/ InsertEventOk
    \/ \E data \in OrderedByEventDate(VisibleEvents) : AddEventLoadOk(data)
    \/ AddEventLoadFails
    \/ SettingsCheckAuthUser
    \/ LoadSettingsFails
    \/ LoadSettingsData
    \/ LoadSettingsNoData
    \/ InsertDefaultsOk
    \/ InsertDefaultsFails
    \/ \E key \in ToggledKeys : updateSettings(key)
    \/ \E c \in settingsCalls : UpsertSettingsOk(c)
    \/ currentPage = "employees" /\ CheckAuthResolves
    \/ currentPage = "employees" /\ LoadTeamMembersResolves
    \/ currentPage = "employees" /\ \E user \in Users : openChat(user)
    \/ currentPage = "employees" /\ closeChat
    \/ ChatPollTick
    \/ \E c \in loads : LoadMessagesFails(c)
    \/ \E c \in loads : \E data \in OrderedByCreatedAt(ThreadRows(c.uid, c.other)) :
            LoadMessagesSelect(c, data)
    \/ \E c \in loads : LoadMessagesSetMessages(c)
    \/ \E c \in loads : LoadMessagesUpdate(c)
    \/ currentPage = "employees" /\ \E sender \in Others : OtherSends(sender)

SpecFetch == InitFetch /\ [][NextFetch]_vars

\* a protected page just mounted, with or without a session, its checkAuth's
\* getUser() in flight
InitAuth ==
    /\ IdleFilter
    /\ IdleTaskForm
    /\ IdleChat
    /\ tz = 0
    /\ authUser \in {Viewer, NoUser}
    /\ db_tasks = <<StoredTask>>
    /\ currentPage \in ProtectedPages
    /\ documentHidden = FALSE
    /\ checkAuth = IF currentPage = "dashboard" THEN "getUser" ELSE "idle"
    /\ presenceCalls = {}
    /\ ticks = 0
    /\ logout = "idle"
    /\ user_presence = {}
    /\ dashTeamMembers = <<>>
    /\ rosterCalls = {}
    /\ rosterTicks = 0
    /\ rosterAuth = IF currentPage = "employees" THEN "getUser" ELSE "idle"
    /\ calAuth = IF currentPage = "calendar" THEN "getUser" ELSE "idle"
    /\ calUserId = NoUser
    /\ currentDate = 0
    /\ events = <<>>
    /\ showModal = FALSE
    /\ selectedDate = NoDate
    /\ newEvent = EmptyEvent
    /\ addEvent = IdleAddEvent
    /\ calendar_events = {StoredEvent}
    /\ summerFrom = NoDate
    /\ settingsAuth = IF currentPage = "settings" THEN "getUser" ELSE "idle"
    /\ settingsUserId = NoUser
    /\ settings = DefaultSettings
    /\ newPassword = <<>>
    /\ confirmPassword = <<>>
    /\ message = NoMessage
    /\ settingsCalls = {}
    /\ lastUpsert = NoUpsert
    /\ pwCall = IdlePwCall
    /\ user_settings \in {{}, {StoredSettings}}
    /\ password = Pw(MinPasswordLength)
    /\ myTasksAuth = IF currentPage = "myTasks" THEN "getUser" ELSE "idle"
    /\ myUserId = NoUser

\* what a page does by itself from its mount on: checkAuth with its
\* fetches, and the timers and listeners its effect installs
NextAuth ==
    \/ CheckAuthNoUser
    \/ CheckAuthUser
    \/ \E data \in OrderedByDueDate(db_tasks) : CheckAuthLoadTasks(data)
    \/ \E c \in presenceCalls : PresenceGetUser(c)
    \/ \E c \in presenceCalls : PresenceUpsertOk(c)
    \/ PresenceTick
    \/ currentPage = "dashboard" /\ handleVisibilityChange
    \/ EmployeesCheckAuthNoUser
    \/ EmployeesCheckAuthUser
    \/ RosterTick
    \/ \E c \in rosterCalls : \E users \in {AuthUsers, NoUserList} :
            RosterListUsers(c, users)
    \/ \E c \in rosterCalls : RosterPresence(c, PresenceData(VisiblePresence))
    \/ MyTasksCheckAuthNoUser
    \/ MyTasksCheckAuthUser
    \/ \E data \in OrderedByDueDate(AssignedTo(myUserId)) : LoadMyTasksOk(data)
    \/ CalendarCheckAuthNoUser
    \/ CalendarCheckAuthUser
    \/ \E data \in OrderedByEventDate(VisibleEvents) : CalendarLoadEventsOk(data)
    \/ SettingsCheckAuthNoUser
    \/ SettingsCheckAuthUser
    \/ LoadSettingsData
    \/ LoadSettingsNoData
    \/ InsertDefaultsOk

SpecAuth == InitAuth /\ [][NextAuth]_vars

\* the Calendar just mounted with a session, in any time zone, with or
\* without a change to summer time in the months shown, its checkAuth's
\* getUser() in flight; the table holds an event of another user
InitCalendar ==
    /\ IdleFilter
    /\ IdleTask
    /\ IdleChat
    /\ IdlePresence
    /\ IdleRoster
    /\ IdleSettings
    /\ IdleMyTasks
    /\ tz \in Offsets
    /\ currentPage = "calendar"
    /\ calAuth = "getUser"
    /\ calUserId = NoUser
    /\ currentDate = 0
    /\ events = <<>>
    /\ showModal = FALSE
    /\ selectedDate = NoDate
    /\ newEvent = EmptyEvent
    /\ addEvent = IdleAddEvent
    /\ calendar_events = {StoredEvent}
    /\ summerFrom \in SummerStarts

NextCalendar ==
    \/ CalendarCheckAuthUser
    \/ \E data \in OrderedByEventDate(VisibleEvents) : CalendarLoadEventsOk(data)
    \/ previousMonth
    \/ nextMonth
    \/ \E day \in MonthDays : openDateModal(day)
    \/ closeModal
    \/ \E v \in EventTitles : SetEventTitle(v)
    \/ handleAddEvent
    \/ InsertEventOk
    \/ InsertEventFails
    \/ \E data \in OrderedByEventDate(VisibleEvents) : AddEventLoadOk(data)

SpecCalendar == InitCalendar /\ [][NextCalendar]_vars

\* the 'Add Event' form of the Calendar of a signed-in user, on a client at
\* a constant offset
InitEventForm ==
    /\ IdleFilter
    /\ IdleTask
    /\ IdleChat
    /\ IdlePresence
    /\ IdleRoster
    /\ IdleSettings
    /\ IdleMyTasks
    /\ tz \in Offsets
    /\ currentPage = "calendar"
    /\ calAuth = "done"
    /\ calUserId = Viewer
    /\ currentDate = 0
    /\ events = <<>>
    /\ showModal = FALSE
    /\ selectedDate = NoDate
    /\ newEvent = EmptyEvent
    /\ addEvent = IdleAddEvent
    /\ calendar_events = {}
    /\ summerFrom = NoDate

NextEventForm ==
    \/ \E day \in MonthDays : openDateModal(day)
    \/ closeModal
    \/ \E v \in EventTitles : SetEventTitle(v)
    \/ \E v \in EventTypes : SetEventType(v)
    \/ \E v \in Links : SetMeetingLink(v)
    \/ handleAddEvent
    \/ InsertEventOk
    \/ \E data \in OrderedByEventDate(VisibleEvents) : AddEventLoadOk(data)

SpecEventForm == InitEventForm /\ [][NextEventForm]_vars

\* the Calendar is shown with a session and its events loaded; useState(new
\* Date()) has given the reference date any day of the years considered
InitMonth ==
    /\ IdleFilter
    /\ IdleTask
    /\ IdleChat
    /\ IdlePresence
    /\ IdleRoster
    /\ IdleSettings
    /\ IdleMyTasks
    /\ tz = 0
    /\ currentPage = "calendar"
    /\ calAuth = "done"
    /\ calUserId = Viewer
    /\ currentDate \in Dates
    /\ events = <<>>
    /\ showModal = FALSE
    /\ selectedDate = NoDate
    /\ newEvent = EmptyEvent
    /\ addEvent = IdleAddEvent
    /\ calendar_events = {}
    /\ summerFrom = NoDate

NextMonth ==
    \/ ClickPreviousMonth
    \/ ClickNextMonth

SpecMonth == InitMonth /\ [][NextMonth]_vars

\* messages stored earlier: an unread one of B to the viewer
StoredMessages ==
    {[id |-> 1, sender_id |-> "B", receiver_id |-> Viewer, is_read |-> FALSE,
      created_at |-> 1]}

\* the Employees page is shown with a session: checkAuth has set
\* currentUserId and loaded the roster; both intervals run from here on
InitEmployees ==
    /\ IdlePages
    /\ IdleFilter
    /\ IdleTask
    /\ documentHidden = FALSE
    /\ checkAuth = "idle"
    /\ presenceCalls = {}
    /\ ticks = 0
    /\ logout = "idle"
    /\ user_presence = {[user_id |-> "B", is_online |-> TRUE, last_seen |-> 5]}
    /\ tz = 0
    /\ currentPage = "employees"
    /\ currentUserId = Viewer
    /\ teamMembers = Employees_members(AuthUsers, NoPresenceData)
    /\ selectedUser = NoUser
    /\ showChat = FALSE
    /\ messages = <<>>
    /\ newMessage = <<>>
    /\ chatPoll = NoPoll
    /\ loads = {}
    /\ send = IdleSend
    /\ chat_messages = StoredMessages
    /\ dashTeamMembers = <<>>
    /\ rosterCalls = {}
    /\ rosterTicks = 0
    /\ rosterAuth = "done"

NextEmployees ==
    \/ RosterTick
    \/ \E c \in rosterCalls : \E users \in ListUsersResults : RosterListUsers(c, users)
    \/ \E c \in rosterCalls :
        \E presenceData \in {PresenceData(VisiblePresence), NoPresenceData} :
            RosterPresence(c, presenceData)
    \/ \E user \in Users : openChat(user)
    \/ closeChat
    \/ ChatPollTick
    \/ \E c \in loads : LoadMessagesFails(c)
    \/ \E c \in loads : \E data \in OrderedByCreatedAt(ThreadRows(c.uid, c.other)) :
            LoadMessagesSelect(c, data)
    \/ \E c \in loads : LoadMessagesSetMessages(c)
    \/ \E c \in loads : LoadMessagesUpdate(c)
    \/ \E c \in loads : LoadMessagesUpdateFails(c)
    \/ \E sender \in Others : OtherSends(sender)

SpecEmployees == InitEmployees /\ [][NextEmployees]_vars

-----------------------------------------------------------------------------
(* Claims about categorisation and the filter tiles *)

\* the client's local calendar date at instant t
LocalDate(t) == (t + tz) \div HoursPerDay

\* C1: a date-only due date equal to the client's local current date is
\* categorised 'today' and a later one 'next', on both pages, at every
\* instant and UTC offset.
C1_TodayAndNext ==
    \A D \in Days :
        /\ D = LocalDate(now) =>
            /\ Dashboard_getCategoryFromDate(D) = "today"
            /\ MyTasks_getCategoryFromDate(D) = "today"
        /\ D > LocalDate(now) =>
            /\ Dashboard_getCategoryFromDate(D) = "next"
            /\ MyTasks_getCategoryFromDate(D) = "next"

\* C2: a date-only due date strictly before the client's local current
\* date is categorised 'overdue', on both pages, at every instant and UTC
\* offset.
C2_BeforeTodayIsOverdue ==
    \A D \in Days :
        D < LocalDate(now) =>
            /\ Dashboard_getCategoryFromDate(D) = "overdue"
            /\ MyTasks_getCategoryFromDate(D) = "overdue"

C2_Witness ==
    /\ tz < 0
    /\ \E i \in DOMAIN tasks :
        /\ tasks[i].due_date < LocalDate(now)
        /\ Category(tasks[i].due_date) = "overdue"
    /\ \E i \in DOMAIN tasks : tasks[i].due_date >= LocalDate(now)

\* the indices of the loaded tasks whose category is the active filter
MatchingIdx == {i \in DOMAIN tasks : Category(tasks[i].due_date) = activeFilter}

\* the k-th smallest matching index
NthMatching(k) ==
    CHOOSE i \in MatchingIdx : Cardinality({j \in MatchingIdx : j < i}) = k - 1

\* C3: with a tile's filter active the visible list is exactly the loaded
\* tasks of that category, in loaded order, each once; with filter 'all'
\* it is the loaded list.
C3_VisibleList ==
    /\ activeFilter = "all" => filteredTasks = tasks
    /\ activeFilter \in Tiles =>
        /\ Len(filteredTasks) = Cardinality(MatchingIdx)
        /\ \A k \in 1..Len(filteredTasks) : filteredTasks[k] = tasks[NthMatching(k)]

C3_Witness ==
    /\ activeFilter \in Tiles
    /\ Len(tasks) = 2
    /\ Len(filteredTasks) = 1
    /\ lastClick = activeFilter

C3_WitnessAll ==
    /\ lastClick = "all"
    /\ Len(tasks) = 2
    /\ filteredTasks = tasks

\* C4 as stated: clicking the tile that is already active clears the filter
C4_ReclickClears ==
    /\ reclicked => activeFilter = "all"
    /\ (lastClick \in Tiles /\ ~reclicked) => activeFilter = lastClick
    /\ lastClick = "all" => activeFilter = "all"

\* C4 (amended): a tile click sets the filter to that tile whatever it was
\* before, so a second click on the active tile leaves it active; only
\* 'Show all tasks' sets the filter back to 'all'.
C4_TileSetsFilter ==
    /\ lastClick \in Tiles => activeFilter = lastClick
    /\ lastClick \in {"all", "none"} => activeFilter = "all"

C4_Witness ==
    /\ reclicked
    /\ lastClick \in Tiles
    /\ activeFilter = lastClick

-----------------------------------------------------------------------------
(* Claims about task creation *)

WrittenByAddTask ==
    <<db_tasks, db_task_attachments, newTask, attachments, tasks,
      consoleError>>

\* C5: handleAddTask issues no backend write (task insert, upload,
\* attachment insert) unless title, due date and assignee are all non-empty
\* and getUser() returned a user; an invocation that returns for one of
\* these reasons changes no table, no form field, no staged attachment, not
\* the task list, and logs no error.
C5_NoWriteWhenIncomplete ==
    /\ [](addTask.calls # <<>> =>
            /\ addTask.form.title # ""
            /\ addTask.form.dueDate # ""
            /\ addTask.form.assignedTo # ""
            /\ addTask.user # NoUser)
    /\ [](\A i \in DOMAIN db_tasks :
            /\ db_tasks[i].title # ""
            /\ db_tasks[i].due_date # ""
            /\ db_tasks[i].assigned_to # ""
            /\ db_tasks[i].created_by # NoUser)
    /\ [](addTask.result \in {"ignored", "noUser"} => addTask.calls = <<>>)
    /\ [][(/\ addTask' # addTask
           /\ \/ addTask'.result \in {"ignored", "noUser"}
              \/ addTask'.pc = "getUser")
          => UNCHANGED WrittenByAddTask]_vars

C5_Witness ==
    /\ addTask.pc = "idle"
    /\ addTask.result = "ignored"
    /\ newTask.title # ""
    /\ newTask.dueDate # ""
    /\ newTask.assignedTo = ""
    /\ attachments # <<>>
    /\ db_tasks = <<>>

C5_WitnessNoUser ==
    /\ addTask.result = "noUser"
    /\ FormComplete(newTask)
    /\ attachments # <<>>
    /\ db_tasks = <<>>

\* the writes an invocation has issued once the staged attachments 1..n
\* have come out as done[1..n]
RECURSIVE ExpectedCalls(_, _)
ExpectedCalls(done, n) ==
    IF n = 0 THEN <<Call("insertTask", 0)>>
    ELSE ExpectedCalls(done, n - 1)
            \o <<Call("upload", n)>>
            \o (IF done[n] = "failed" THEN <<>> ELSE <<Call("insertAttachment", n)>>)

\* the staged attachments 1..n whose outcome is in the set which
RECURSIVE FilesDone(_, _, _, _)
FilesDone(atts, done, n, which) ==
    IF n = 0 THEN <<>>
    ELSE FilesDone(atts, done, n - 1, which)
            \o (IF done[n] \in which THEN <<atts[n]>> ELSE <<>>)

FilesOfTask(rows, id) ==
    LET mine == SelectSeq(rows, LAMBDA r : r.task_id = id)
    IN  [k \in 1..Len(mine) |-> mine[k].file_name]

InLoop == addTask.pc \in {"upload", "insertAttachment", "loadTasks"}

\* C6: after the task insert succeeded the staged attachments (those of the
\* render that submitted) are processed one after another in staged order:
\* the writes issued are the task insert, then for each attachment in turn
\* its upload, followed by one attachment insert exactly when the upload
\* succeeded; a failed upload neither removes the task row nor stops the
\* loop; the objects stored are the attachments whose upload succeeded and
\* the records stored are those whose insert the backend accepted, each
\* with the new task's id; past the last attachment the form and the
\* staged list are reset and loadTasks() is called.
C6_AttachmentLoop ==
    /\ [](InLoop =>
            LET a == addTask
                n == Len(a.done)
            IN  /\ a.taskId \in DOMAIN db_tasks
                /\ db_tasks[a.taskId].id = a.taskId
                /\ db_tasks[a.taskId].title = a.form.title
                /\ n <= Len(a.atts)
                /\ a.pc = "upload" =>
                    /\ a.idx = n + 1
                    /\ a.calls = ExpectedCalls(a.done, n) \o <<Call("upload", a.idx)>>
                /\ a.pc = "insertAttachment" =>
                    /\ a.idx = n
                    /\ a.done[n] = "uploaded"
                    /\ a.calls = ExpectedCalls(a.done, n)
                /\ a.pc = "loadTasks" =>
                    /\ n = Len(a.atts)
                    /\ a.calls = ExpectedCalls(a.done, n)
                    /\ \A i \in 1..n : a.done[i] \in {"failed", "stored", "rejected"}
                /\ FilesOfTask(db_task_attachments, a.taskId)
                    = FilesDone(a.atts, a.done, n, {"stored"}))
    /\ [](\A i \in DOMAIN db_task_attachments :
            db_task_attachments[i].task_id \in DOMAIN db_tasks)
    /\ [][(addTask.pc \in {"insert", "upload", "insertAttachment"}
            /\ addTask'.pc = "loadTasks")
          => (newTask' = EmptyTask /\ attachments' = <<>>)]_vars
    /\ [][(addTask.pc \in {"upload", "insertAttachment"} /\ addTask' # addTask)
          => (/\ addTask'.pc \in {"upload", "insertAttachment", "loadTasks"}
              /\ db_tasks' = db_tasks)]_vars
    /\ [][(addTask.pc = "loadTasks" /\ addTask' # addTask)
          => \/ tasks' \in OrderedByDueDate(db_tasks)
             \/ (tasks' = tasks /\ consoleError' = "Error loading tasks:")]_vars

\* two staged attachments, the first upload failed, the second is stored
C6_Witness ==
    /\ addTask.pc = "loadTasks"
    /\ Len(addTask.atts) = 2
    /\ addTask.done = <<"failed", "stored">>
    /\ Len(db_task_attachments) = 1
    /\ db_task_attachments[1].file_name = addTask.atts[2]
    /\ newTask = EmptyTask
    /\ attachments = <<>>


-----------------------------------------------------------------------------
(* Claims about the chat thread *)

\* the loadMessages calls whose select the backend answers in this step
SelectAnswered == {c \in loads' \ loads : c.stage = "selected"}

\* the loadMessages call whose mark-as-read update leaves flight in this step
UpdateLeaving == {c \in loads \ loads' : c.stage = "update"}

InThread(m, a, b) ==
    \/ (m.sender_id = a /\ m.receiver_id = b)
    \/ (m.sender_id = b /\ m.receiver_id = a)

ListedIn(m, l) == \E i \in 1..Len(l) : l[i] = m

\* C7: the list a successful loadMessages(B) of viewer A sets is the answer
\* to its select, and that answer lists every stored message between A and
\* B, lists no message whose sender or receiver is a third party, and is in
\* non-decreasing created_at order.
C7_ThreadContent ==
    /\ [][\A c \in SelectAnswered :
            /\ c.uid = authUser
            /\ \A m \in chat_messages :
                    InThread(m, c.uid, c.other) => ListedIn(m, c.data)
            /\ \A i \in 1..Len(c.data) :
                    /\ c.data[i] \in chat_messages
                    /\ {c.data[i].sender_id, c.data[i].receiver_id}
                            \subseteq {c.uid, c.other}
            /\ \A i, j \in 1..Len(c.data) :
                    i < j => c.data[i].created_at <= c.data[j].created_at]_vars
    /\ [][messages' # messages /\ messages' # <<>> =>
            \E c \in loads : c.stage = "selected" /\ messages' = c.data]_vars

\* a thread with B is displayed while a message of third party C is stored
C7_Witness ==
    /\ selectedUser = "B"
    /\ messages # <<>>
    /\ \E m \in chat_messages : m.sender_id = "C"
    /\ \A i \in 1..Len(messages) : messages[i].sender_id = "B"

\* C8: when the mark-as-read update of a loadMessages(B) of viewer A, B
\* another user, is applied, every stored unread message from B to A becomes
\* read and every other message keeps its is_read flag; a row's flag changes
\* in no other step, and an update is only sent after a select that was
\* answered without error, so a failed fetch marks nothing.
C8_MarkReadFrame ==
    /\ [][\A c \in UpdateLeaving : c.other # c.uid /\ chat_messages' # chat_messages =>
            /\ \A m \in chat_messages :
                    m.sender_id = c.other /\ m.receiver_id = authUser /\ ~m.is_read
                        => [m EXCEPT !.is_read = TRUE] \in chat_messages'
            /\ \A m \in chat_messages :
                    m.sender_id = authUser => m \in chat_messages'
            /\ \A m \in chat_messages :
                    ~(m.sender_id = c.other /\ m.receiver_id = authUser)
                        => m \in chat_messages']_vars
    /\ [][(\E m \in chat_messages : m \notin chat_messages') =>
            \E c \in UpdateLeaving : c.uid = authUser]_vars
    /\ [][\A c \in loads' \ loads : c.stage = "update" =>
            \E d \in loads : d.stage = "selected" /\ d.other = c.other]_vars
    /\ [][\A c \in loads \ loads' : c.stage = "select" /\ consoleError' # consoleError =>
            /\ chat_messages' = chat_messages
            /\ loads' = loads \ {c}]_vars

\* the viewer's displayed thread with B holds a message from B that the
\* update has marked read, beside an unread message the viewer sent
C8_Witness ==
    /\ selectedUser = "B"
    /\ loads = {}
    /\ \E m \in chat_messages :
            m.sender_id = "B" /\ m.receiver_id = Viewer /\ m.is_read
    /\ \E m \in chat_messages :
            m.sender_id = Viewer /\ m.receiver_id = "B" /\ ~m.is_read

IsBlank(text) == \A i \in 1..Len(text) : text[i] = " "

\* C9: handleSendMessage with a non-blank text and a selected user sends one
\* insert, which stores exactly one new row (sender the current user,
\* receiver the selected user, is_read false), clears the input and issues a
\* loadMessages for that user in the same step; with blank text or no
\* selected user it returns without a write; if the insert fails the input
\* is kept and no loadMessages is issued.
C9_SendMessage ==
    /\ [][send.pc = "idle" /\ send' # send =>
            IF ~IsBlank(newMessage) /\ selectedUser # NoUser
            THEN /\ send'.pc = "insert"
                 /\ send'.uid = currentUserId
                 /\ send'.other = selectedUser
            ELSE /\ send'.pc = "idle"
                 /\ send'.result = "ignored"
                 /\ UNCHANGED <<chat_messages, newMessage, loads, messages>>]_vars
    /\ [][send.pc = "insert" /\ send'.result = "sent" =>
            /\ \E m \in chat_messages' \ chat_messages :
                    /\ chat_messages' = chat_messages \cup {m}
                    /\ m.sender_id = currentUserId
                    /\ m.sender_id = send.uid
                    /\ m.receiver_id = send.other
                    /\ m.is_read = FALSE
            /\ newMessage' = <<>>
            /\ \E c \in loads' \ loads : c.other = send.other /\ c.stage = "select"]_vars
    /\ [][send.pc = "insert" /\ send'.result = "failed" =>
            /\ chat_messages' = chat_messages
            /\ newMessage' = newMessage
            /\ loads' = loads]_vars
    /\ [](send.pc = "insert" => ~IsBlank(send.text) /\ send.other # NoUser)
    /\ [][Cardinality(chat_messages') > Cardinality(chat_messages) =>
            \/ send.pc = "insert" /\ send'.result = "sent"
            \/ \E m \in chat_messages' \ chat_messages : m.sender_id # Viewer]_vars

\* a message the viewer sent to B is stored unread, the input is empty and
\* the re-fetch of the thread with B is in flight
C9_Witness ==
    /\ send.result = "sent"
    /\ newMessage = <<>>
    /\ \E m \in chat_messages :
            m.sender_id = Viewer /\ m.receiver_id = "B" /\ ~m.is_read
    /\ \E c \in loads : c.other = "B" /\ c.stage = "select"

-----------------------------------------------------------------------------
(* Claims about the presence heartbeat *)

StartedCalls == presenceCalls' \ presenceCalls
FinishedCalls == presenceCalls \ presenceCalls'

\* C10: when the Dashboard's checkAuth finds the user it sends an upsert of
\* that user's row with is_online true and the current time as last_seen;
\* a firing of the 30-second interval starts a write of is_online true if
\* the document is visible and starts nothing if it is hidden, and itself
\* changes no row; a write the interval started, once getUser() has returned
\* the user, is an upsert of that user's row with is_online true; the table
\* changes only by applying a sent upsert, to the row of the authenticated
\* user and no other.
C10_Heartbeat ==
    /\ [][checkAuth = "getUser" /\ authUser # NoUser /\ checkAuth' # checkAuth =>
            \E c \in StartedCalls :
                /\ StartedCalls = {c}
                /\ c.origin = "mount" /\ c.stage = "upsert"
                /\ c.user_id = authUser /\ c.isOnline /\ c.last_seen = now]_vars
    /\ [][ticks' # ticks =>
            /\ user_presence' = user_presence
            /\ FinishedCalls = {}
            /\ IF documentHidden THEN StartedCalls = {}
               ELSE \E c \in StartedCalls :
                        StartedCalls = {c} /\ c.origin = "tick" /\ c.isOnline]_vars
    /\ [][\A c \in StartedCalls : c.origin = "tick" /\ c.stage = "getUser" =>
            ticks' # ticks /\ ~documentHidden]_vars
    /\ [][\A c \in FinishedCalls :
            c.origin = "tick" /\ c.stage = "getUser" /\ authUser # NoUser =>
                \E d \in StartedCalls :
                    /\ d.origin = "tick" /\ d.stage = "upsert"
                    /\ d.user_id = authUser /\ d.isOnline /\ d.last_seen = now]_vars
    /\ [](\A c \in presenceCalls : c.origin \in {"mount", "tick"} => c.isOnline)
    /\ [][user_presence' # user_presence =>
            \E c \in FinishedCalls :
                /\ c.stage = "upsert"
                /\ c.user_id = authUser
                /\ [user_id |-> authUser, is_online |-> c.isOnline,
                    last_seen |-> c.last_seen] \in user_presence'
                /\ \A r \in user_presence : r.user_id # authUser => r \in user_presence'
                /\ \A r \in user_presence' : r.user_id # authUser => r \in user_presence]_vars

\* the mount's upsert has been applied and, a clock hour later, the
\* interval has fired with the document visible and its upsert is on the way
C10_Witness ==
    /\ checkAuth = "done"
    /\ ticks > 0
    /\ \E r \in user_presence :
            r.user_id = Viewer /\ r.is_online /\ r.last_seen = HoursPerDay
    /\ \E c \in presenceCalls :
            /\ c.origin = "tick" /\ c.stage = "upsert"
            /\ c.user_id = Viewer /\ c.last_seen > HoursPerDay

\* C11: on the mounted Dashboard, once no presence write is in progress, the
\* stored is_online of the user equals the document's visibility.
C11_VisibilityConverges ==
    (presenceCalls = {} /\ checkAuth = "done") =>
        \A r \in user_presence : r.user_id = Viewer => r.is_online = ~documentHidden

-----------------------------------------------------------------------------
(* Claims about page lifecycles, the roster and authentication *)

StartedRosterCalls == rosterCalls' \ rosterCalls

\* C12: the step that unmounts or unloads the Dashboard calls
\* updatePresence(false), which sends an upsert of is_online false for the
\* user getUser() returns; while the Dashboard is not mounted its interval
\* does not fire and no firing or visibility change starts a presence write;
\* while the Employees page is not mounted its roster interval does not fire
\* and starts no loadTeamMembers.
C12_UnmountCleanup ==
    /\ [][currentPage = "dashboard" /\ currentPage' # "dashboard" =>
            \E c \in StartedCalls :
                /\ StartedCalls = {c}
                /\ c.origin \in {"cleanup", "unload"}
                /\ c.stage = "getUser" /\ ~c.isOnline]_vars
    /\ [][\A c \in FinishedCalls :
            /\ c.origin \in {"cleanup", "unload"}
            /\ c.stage = "getUser"
            /\ authUser # NoUser
            => \E d \in StartedCalls :
                    /\ d.origin = c.origin /\ d.stage = "upsert"
                    /\ d.user_id = authUser /\ ~d.isOnline]_vars
    /\ [][currentPage # "dashboard" =>
            /\ ticks' = ticks
            /\ \A c \in StartedCalls : c.stage # "getUser"]_vars
    /\ [][currentPage # "employees" =>
            /\ rosterTicks' = rosterTicks
            /\ \A c \in StartedRosterCalls :
                    c.stage = "listUsers" => c.origin # "timer"]_vars

\* the Dashboard's interval has fired, the page has since been left, and the
\* cleanup's upsert of is_online false is on its way
C12_Witness ==
    /\ currentPage = "myTasks"
    /\ ticks > 0
    /\ \E c \in presenceCalls :
            /\ c.origin = "cleanup" /\ c.stage = "upsert"
            /\ c.user_id = Viewer /\ ~c.isOnline

\* list is the roster of the users joined with the presence rows: one entry
\* per user in the users' order, carrying the row of that user_id or the
\* defaults
JoinedRoster(list, users, rows) ==
    /\ Len(list) = Len(users)
    /\ \A i \in 1..Len(users) :
        /\ list[i].user_id = users[i].id
        /\ \A p \in rows : p.user_id = users[i].id =>
                list[i].is_online = p.is_online /\ list[i].last_seen = p.last_seen
        /\ (\A p \in rows : p.user_id # users[i].id) =>
                list[i].is_online = FALSE /\ list[i].last_seen = users[i].created_at

\* C13: a loadTeamMembers call that completes on its mounted page sets the
\* page's roster to one entry per listed user, in the list's order, with
\* is_online / last_seen of the user's presence row when the table shows the
\* caller one and false / created_at when it shows none (so no entry for a row without a
\* user); a call whose user list is unavailable leaves both rosters as they
\* were
C13_RosterJoin ==
    [][\A c \in rosterCalls :
        /\ (c.stage = "presence" /\ rosterCalls' = rosterCalls \ {c}) =>
            /\ (c.page = "employees" /\ currentPage = "employees") =>
                    JoinedRoster(teamMembers', c.users, VisiblePresence)
            /\ (c.page = "dashboard" /\ currentPage = "dashboard") =>
                    JoinedRoster(dashTeamMembers', c.users, VisiblePresence)
        /\ (c.stage = "listUsers" /\ rosterCalls' = rosterCalls \ {c}) =>
            teamMembers' = teamMembers /\ dashTeamMembers' = dashTeamMembers
    ]_vars

-----------------------------------------------------------------------------
(* Claims about rejected writes, failed fetches and authentication *)

\* C14: when the backend rejects a write (the task insert of handleAddTask,
\* the event insert of handleAddEvent, the message insert of
\* handleSendMessage, the upsert of updateSettings) the operation ends there,
\* without a retry or a follow-up fetch, and the view is as it was before the
\* operation: the form fields, the staged attachments, the open modal, the
\* loaded lists, and the settings toggles have the values they had when the
\* operation started
C14_RejectedWriteKeepsView ==
    [][/\ (addTask.pc = "insert" /\ addTask'.result = "insertError") =>
            /\ addTask'.pc = "idle"
            /\ UNCHANGED <<newTask, attachments, tasks, db_tasks,
                           db_task_attachments>>
       /\ (addEvent.pc = "insert" /\ addEvent'.result = "failed") =>
            /\ addEvent'.pc = "idle"
            /\ UNCHANGED <<newEvent, selectedDate, showModal, events,
                           currentDate, calAuth, calendar_events>>
       /\ (send.pc = "insert" /\ send'.result = "failed") =>
            /\ send'.pc = "idle"
            /\ UNCHANGED <<newMessage, messages, selectedUser, showChat,
                           loads, chat_messages>>
       /\ (lastUpsert' # lastUpsert /\ lastUpsert'.result = "rejected") =>
            /\ settings' = lastUpsert'.before
            /\ settingsCalls' \subseteq settingsCalls
            /\ UNCHANGED <<settingsAuth, newPassword, confirmPassword,
                           user_settings>>
    ]_vars

\* a step that logs this error of a fetch
Logs(text) == consoleError' = text /\ consoleError # text

\* C15: when a fetch is answered with an error (loadTasks, loadMyTasks,
\* loadEvents, loadMessages, loadSettings), the step that handles the error
\* ends the fetch: the list or the settings it would have set keep their
\* value, no new request is sent (no retry), and the write that follows a
\* successful fetch (marking the thread read, inserting the default
\* settings) is not made
C15_FailedFetchKeepsState ==
    [][/\ (Logs("Error loading tasks:") /\ checkAuth = "loadTasks"
                /\ addTask' = addTask /\ myTasksAuth' = myTasksAuth) =>
            /\ checkAuth' = "done"
            /\ UNCHANGED <<tasks, db_tasks, presenceCalls>>
       /\ (addTask.pc = "loadTasks" /\ addTask'.result = "loadError") =>
            /\ addTask'.pc = "idle"
            /\ UNCHANGED <<tasks, db_tasks, checkAuth>>
       /\ (Logs("Error loading tasks:") /\ myTasksAuth = "loadMyTasks"
                /\ addTask' = addTask /\ checkAuth' = checkAuth) =>
            /\ myTasksAuth' = "done"
            /\ UNCHANGED <<tasks, db_tasks>>
       /\ (Logs("Error loading events:") /\ calAuth = "loadEvents"
                /\ addEvent' = addEvent) =>
            /\ calAuth' = "done"
            /\ UNCHANGED <<events, calendar_events>>
       /\ (addEvent.pc = "loadEvents" /\ addEvent'.result = "notLoaded") =>
            /\ addEvent'.pc = "idle"
            /\ UNCHANGED <<events, calendar_events, calAuth>>
       /\ \A c \in loads : (c.stage = "select" /\ c \notin loads'
                                /\ loads' \subseteq loads) =>
            /\ loads' = loads \ {c}
            /\ UNCHANGED <<messages, chat_messages>>
       /\ (Logs("Error loading settings:") /\ settingsAuth = "loadSettings") =>
            /\ settingsAuth' = "done"
            /\ UNCHANGED <<settings, user_settings, settingsCalls>>
    ]_vars

\* a fetch of an open thread has failed: the thread is still displayed, and
\* a message to the viewer is still unread
C15_Witness ==
    /\ consoleError = "Error loading messages:"
    /\ loads = {}
    /\ messages # <<>>
    /\ \E m \in chat_messages :
            m.receiver_id = currentUserId /\ m.sender_id = selectedUser /\ ~m.is_read

\* the mount-time user lookup of the page is still in flight
LookupPending ==
    \/ checkAuth = "getUser"
    \/ rosterAuth = "getUser"
    \/ myTasksAuth = "getUser"
    \/ calAuth = "getUser"
    \/ settingsAuth = "getUser"

\* this step sends a read of a table or of the roster
SendsRead ==
    \/ checkAuth' = "loadTasks" /\ checkAuth # "loadTasks"
    \/ myTasksAuth' = "loadMyTasks" /\ myTasksAuth # "loadMyTasks"
    \/ calAuth' = "loadEvents" /\ calAuth # "loadEvents"
    \/ settingsAuth' = "loadSettings" /\ settingsAuth # "loadSettings"
    \/ rosterCalls' \ rosterCalls # {}
    \/ loads' \ loads # {}

\* this step sends a write of a table
SendsWrite ==
    \/ {c \in presenceCalls' \ presenceCalls : c.stage = "upsert"} # {}
    \/ settingsAuth' = "insertDefaults" /\ settingsAuth # "insertDefaults"
    \/ settingsCalls' \ settingsCalls # {}

\* C16: a protected page authenticates before it fetches: once its
\* mount-time lookup has returned no user, no read or write of a table is
\* sent any more, by checkAuth or by a timer or listener installed at mount;
\* and with a user, no read is sent by a step during which that lookup is
\* in flight
C16_AuthBeforeFetch ==
    [][/\ (authUser = NoUser /\ ~LookupPending) => ~SendsRead /\ ~SendsWrite
       /\ (authUser # NoUser /\ LookupPending /\ LookupPending') => ~SendsRead
    ]_vars

-----------------------------------------------------------------------------
(* Claims about the chat poll, the tile counts, passwords and the calendar *)

\* the loadMessages calls this step starts
StartedLoads == {c \in loads' \ loads : c.stage = "select"}

\* C17: the chat poll timer exists exactly while a thread is open, and it
\* is the timer of the open thread, so at most one exists; the step that
\* opens a thread with a user starts one fetch of that user's thread and the
\* timer; a tick of the timer fetches the open thread only, so after the
\* chat is closed or another user is selected no tick fetches the thread
\* that was open
C17_ChatPollTimer ==
    /\ [](chatPoll.active <=> (showChat /\ selectedUser # NoUser))
    /\ [](chatPoll.active => chatPoll.other = selectedUser)
    /\ [][/\ (selectedUser' # selectedUser /\ selectedUser' # NoUser) =>
                /\ Cardinality(StartedLoads) = 1
                /\ \A c \in StartedLoads : c.other = selectedUser'
                /\ chatPoll'.active /\ chatPoll'.other = selectedUser'
          /\ (selectedUser' = selectedUser /\ send' = send) =>
                \A c \in StartedLoads :
                    showChat /\ c.other = selectedUser /\ chatPoll' = chatPoll
         ]_vars

\* the chat with B was opened and is closed again, a fetch of B's thread
\* still in flight
C17_Witness ==
    /\ ~showChat
    /\ ~chatPoll.active
    /\ \E c \in loads : c.other = "B" /\ c.stage = "select"

\* C18: on the Dashboard and on My Tasks every loaded task, one whose due
\* date does not parse included, is in exactly one of the categories today,
\* next, overdue: the three counts add up to the number of loaded tasks, and
\* the list a tile shows is the tasks of that tile's category, so that the
\* three lists are disjoint and cover the loaded list
C18_CountsPartition ==
    /\ \A i \in DOMAIN tasks :
            Cardinality({X \in Tiles : Category(tasks[i].due_date) = X}) = 1
    /\ todayCount + nextCount + overdueCount = Len(tasks)
    /\ activeFilter \in Tiles =>
            /\ Len(filteredTasks) = CountOf(activeFilter)
            /\ \A i \in DOMAIN tasks :
                    (\E k \in DOMAIN filteredTasks : filteredTasks[k] = tasks[i])
                        <=> Category(tasks[i].due_date) = activeFilter

\* a tile is active on the Dashboard with a task loaded whose due date does
\* not parse, and another task
C18_Witness ==
    /\ currentPage = "dashboard"
    /\ activeFilter = "next"
    /\ Len(tasks) = 2
    /\ tasks[1].due_date = InvalidDate
    /\ tasks[2].due_date # InvalidDate
    /\ Len(filteredTasks) >= 1

MismatchMessage == ErrorMessage("Passwords do not match!")
ShortMessage == ErrorMessage("Password must be at least 6 characters!")
UpdatedMessage == SuccessMessage("Password updated successfully!")

\* this step is an updatePassword call that ends with this result
Rejects(result, text) ==
    /\ pwCall'.result = result
    /\ message' = text
    /\ pwCall' # pwCall \/ message' # message

\* C19: updatePassword sends the password update only for a new password
\* that equals the confirmation and has at least 6 characters; a mismatch,
\* and otherwise a short password, sets its error message, sends nothing and
\* leaves both fields as they are; the fields are cleared, and the success
\* message is set, only by the step in which the update has succeeded (on
\* the page, if it is still mounted)
C19_UpdatePassword ==
    [][/\ (pwCall.pc = "idle" /\ pwCall'.pc = "updateUser") =>
            /\ newPassword = confirmPassword
            /\ Len(newPassword) >= MinPasswordLength
            /\ pwCall'.password = newPassword
       /\ Rejects("mismatch", MismatchMessage) =>
            /\ newPassword # confirmPassword
            /\ pwCall'.pc = "idle"
            /\ UNCHANGED <<newPassword, confirmPassword, password>>
       /\ Rejects("short", ShortMessage) =>
            /\ newPassword = confirmPassword
            /\ Len(newPassword) < MinPasswordLength
            /\ pwCall'.pc = "idle"
            /\ UNCHANGED <<newPassword, confirmPassword, password>>
       /\ (pwCall.pc = "updateUser" /\ pwCall'.result = "failed") =>
            /\ currentPage = "settings" => message'.type = "error"
            /\ UNCHANGED <<newPassword, confirmPassword, password>>
       /\ (\/ newPassword' = <<>> /\ newPassword # <<>>
           \/ confirmPassword' = <<>> /\ confirmPassword # <<>>
           \/ message' = UpdatedMessage /\ message # UpdatedMessage
           \/ password' # password) =>
            /\ pwCall.pc = "updateUser"
            /\ pwCall'.result = "updated"
            /\ password' = pwCall.password
            /\ currentPage = "settings" =>
                    /\ newPassword' = <<>> /\ confirmPassword' = <<>>
                    /\ message' = UpdatedMessage
    ]_vars

\* updatePassword has been called with two different passwords, the new one
\* too short: the mismatch is what is reported
C19_Witness ==
    /\ pwCall.result = "mismatch"
    /\ message = MismatchMessage
    /\ newPassword # confirmPassword
    /\ newPassword # <<>>
    /\ Len(newPassword) < MinPasswordLength


\* the row handleAddEvent has inserted is listed under this day of this month
\* by the list evs
ListsAdded(month, day, evs) == \E e \in EventsOn(month, day, evs) : e.id = addEvent.id

\* C20: when handleAddEvent's re-fetch has succeeded on the mounted Calendar,
\* the new event is listed by getEventsForDate under the day it was added
\* for, and under no other day of any month, in every zone of the client;
\* a row is written only by a handleAddEvent that was submitted with a day
\* selected and a title, and one submitted without returns and writes nothing
C20_EventOnSelectedDay ==
    [][/\ (currentPage = "calendar" /\ addEvent.pc = "loadEvents"
                /\ addEvent'.result = "added") =>
            \A month \in Months, day \in MonthDays :
                ListsAdded(month, day, events') <=>
                    NewDate(month, day) = addEvent.selected
       /\ (addEvent.pc = "idle" /\ addEvent'.pc = "insert") =>
            selectedDate # NoDate /\ newEvent.title # ""
       /\ (addEvent.result # "returned" /\ addEvent'.result = "returned") =>
            /\ selectedDate = NoDate \/ newEvent.title = ""
            /\ addEvent'.pc = "idle"
       /\ calendar_events' # calendar_events =>
            /\ addEvent.pc = "insert"
            /\ addEvent.selected # NoDate /\ addEvent.title # ""
            /\ calendar_events' = calendar_events \cup {NewEventRow}]_vars


-----------------------------------------------------------------------------
(* Claims about the month grid, the Employees timers and the settings row *)

SameMonth(d, e) == d.year = e.year /\ d.month = e.month

\* C21: from every reference date, nextMonth gives the first day of the
\* following month and previousMonth the first day of the preceding one,
\* December and January carrying into the year; each undoes the other as to
\* year and month, also from the days 29 to 31; the grid is
\* startingDayOfWeek (0..6) blank cells followed by the day cells 1 to
\* daysInMonth (28..31), daysInMonth being the length of that month and the
\* blank cells those that make the next month start on the weekday after
\* this month's last day
C21_MonthGrid ==
    LET d == currentDate
        n == NextMonthDate(d)
        p == PreviousMonthDate(d)
        g == getDaysInMonth(d)
    IN  /\ n = [year |-> IF d.month = 11 THEN d.year + 1 ELSE d.year,
                month |-> IF d.month = 11 THEN 0 ELSE d.month + 1, date |-> 1]
        /\ p = [year |-> IF d.month = 0 THEN d.year - 1 ELSE d.year,
                month |-> IF d.month = 0 THEN 11 ELSE d.month - 1, date |-> 1]
        /\ SameMonth(PreviousMonthDate(n), d)
        /\ SameMonth(NextMonthDate(p), d)
        /\ g.startingDayOfWeek \in 0..6
        /\ g.daysInMonth \in 28..31
        /\ g.daysInMonth = MonthLength(d.year, d.month)
        /\ (g.startingDayOfWeek + g.daysInMonth) % 7 = getDaysInMonth(n).startingDayOfWeek
        /\ Len(Grid(d)) = g.startingDayOfWeek + g.daysInMonth
        /\ \A i \in 1..Len(Grid(d)) :
                Grid(d)[i] = IF i <= g.startingDayOfWeek THEN 0
                             ELSE i - g.startingDayOfWeek

\* the reference date is 31 January, from which the months are stepped
C21_Witness ==
    /\ currentDate.month = 0 /\ currentDate.date = 31
    /\ NextMonthDate(currentDate).month = 1
    /\ PreviousMonthDate(currentDate).year = currentDate.year - 1
    /\ getDaysInMonth(NextMonthDate(currentDate)).daysInMonth = 29


\* this step is one of a loadTeamMembers call of the 5-second interval: the
\* tick that starts it, or a response it receives
RosterPollStep ==
    \/ rosterTicks' # rosterTicks
    \/ \E c \in rosterCalls : c.origin = "timer" /\ c \notin rosterCalls'

\* this step is one of a loadMessages call: the 3-second tick that starts
\* it, or a response it receives
ChatPollStep ==
    \/ /\ loads' # loads /\ loads \subseteq loads'
       /\ chatPoll' = chatPoll /\ send' = send
    \/ \E c \in loads : c \notin loads'

\* the table differs at most in is_read flags, set on rows addressed to uid
OnlyMarksReadFor(uid) ==
    /\ \A m \in chat_messages :
            \/ m \in chat_messages'
            \/ /\ m.receiver_id = uid /\ ~m.is_read
               /\ [m EXCEPT !.is_read = TRUE] \in chat_messages'
    /\ \A m \in chat_messages' :
            \/ m \in chat_messages
            \/ [m EXCEPT !.is_read = FALSE] \in chat_messages

\* C22: on the Employees page a step of the roster poll leaves messages,
\* selectedUser, showChat and the chat_messages table as they are, and a
\* step of the chat poll leaves teamMembers, selectedUser, showChat and the
\* user_presence table as they are and changes in chat_messages at most
\* is_read flags of messages addressed to the viewer, however the two polls
\* interleave
C22_TimersDisjoint ==
    [][/\ RosterPollStep =>
            UNCHANGED <<messages, selectedUser, showChat, chat_messages, loads>>
       /\ ChatPollStep =>
            /\ UNCHANGED <<teamMembers, user_presence, selectedUser, showChat,
                           rosterCalls>>
            /\ OnlyMarksReadFor(authUser)]_vars

\* both polls have a call in flight, the roster shown has been replaced and
\* a message to the viewer has been marked read
C22_Witness ==
    /\ rosterCalls # {} /\ loads # {}
    /\ teamMembers # Employees_members(AuthUsers, NoPresenceData)
    /\ messages # <<>>
    /\ \E m \in chat_messages : m.receiver_id = Viewer /\ m.is_read


\* the rows of a user in the table after the step
RowsAfter(userId) == {r \in user_settings' : r.user_id = userId}

\* C23: when loadSettings has found no row of the user and its insert is
\* applied, the user has exactly one row, with all six flags true; when it
\* finds a row, the row's values are shown and the table stays as it is; and
\* no user ever has more than one row, whatever loads and toggles happen
C23_DefaultSettingsRow ==
    [][/\ (settingsAuth = "insertDefaults" /\ user_settings' # user_settings
                /\ settingsCalls' = settingsCalls) =>
            /\ SettingsRows(authUser) = {}
            /\ RowsAfter(authUser) = {[user_id |-> authUser, values |-> DefaultSettings]}
            /\ \A k \in SettingKeys :
                    \A r \in RowsAfter(authUser) : r.values[k] = TRUE
       /\ (settingsAuth = "loadSettings" /\ settingsAuth' = "done"
                /\ consoleError' # "Error loading settings:") =>
            /\ SettingsRows(authUser) # {}
            /\ user_settings' = user_settings
            /\ currentPage = "settings" =>
                    \E r \in SettingsRows(authUser) : settings' = r.values
       /\ \A u \in Users : Cardinality(RowsAfter(u)) <= 1]_vars

\* the first load has inserted the defaults after the user had clicked a
\* toggle, and the row is the user's only one
C23_Witness ==
    /\ settingsAuth = "done"
    /\ settings # DefaultSettings
    /\ lastUpsert.result = "none"
    /\ user_settings = {[user_id |-> Viewer, values |-> DefaultSettings]}


-----------------------------------------------------------------------------
(* Claims about stale responses, read marks, presence at unmount, attachments,
   settings upserts and events *)

\* a row is a message between these two users
Between(m, uid, other) ==
    \/ (m.sender_id = uid /\ m.receiver_id = other)
    \/ (m.sender_id = other /\ m.receiver_id = uid)

\* C24: the message list holds only messages between the viewer and the
\* selected user: it is empty while no thread is open, and while a thread is
\* open every message in it is of that thread, whichever responses of
\* earlier fetches arrive
C24_OnlySelectedThread ==
    /\ ~showChat => messages = <<>>
    /\ showChat =>
        \A i \in 1..Len(messages) : Between(messages[i], currentUserId, selectedUser)


\* the rows whose is_read flag this step sets
MarkedRead ==
    {m \in chat_messages : ~m.is_read /\ [m EXCEPT !.is_read = TRUE] \in chat_messages'
                                     /\ m \notin chat_messages'}

\* C25: every message a loadMessages call marks read is in the list that
\* call fetched, also when the other party has inserted a message between
\* the call's select and its update
C25_ReadOnlyIfFetched ==
    [][\A c \in UpdateLeaving :
            \A m \in MarkedRead : \E i \in 1..Len(c.data) : c.data[i].id = m.id]_vars


\* the Dashboard has been left and nothing of it is still running: no
\* presence write in progress, checkAuth past its presence upsert, no logout
\* under way
DashboardQuiet ==
    /\ currentPage # "dashboard"
    /\ presenceCalls = {}
    /\ checkAuth \in {"loadTasks", "done"}
    /\ logout = "idle"

\* C26: once the Dashboard has been left, by navigation or by logging out,
\* and every presence write has completed, the user's stored is_online is
\* false, whichever tick, visibility change or mount-time upsert was in
\* progress when it was left; and signOut is called only when the logout's
\* updatePresence(false) has returned
C26_OfflineAfterLeaving ==
    /\ [](DashboardQuiet =>
            \A r \in user_presence : r.user_id = Viewer => ~r.is_online)
    /\ [][authUser' # authUser =>
            /\ logout = "signOut"
            /\ \A c \in presenceCalls : c.origin # "logout"]_vars


\* this step is a reader.onload: a call's set of running readers shrinks
OnloadStep == batches' # batches /\ Len(batches') <= Len(batches)

\* C27: every file read that completes stages that file once, after the
\* entries staged before, so that the n files of one selection are staged
\* exactly once each when all reads have completed; removeAttachment(i)
\* removes the entry at index i and keeps the others in their order
C27_StagedOnce ==
    [][/\ OnloadStep =>
            \E b \in DOMAIN batches : \E f \in batches[b].pending :
                /\ attachments' = Append(attachments, f)
                /\ \/ batches' = RemoveAt(batches, b)
                   \/ /\ Len(batches') = Len(batches)
                      /\ batches'[b].pending = batches[b].pending \ {f}
       /\ (batches' = batches /\ attachments' # attachments) =>
            \E i \in DOMAIN attachments :
                attachments' = SubSeq(attachments, 1, i - 1)
                                \o SubSeq(attachments, i + 1, Len(attachments))]_vars


\* no request of the Settings page is in flight, and an upsert was applied
SettingsQuiet ==
    /\ settingsAuth = "done"
    /\ settingsCalls = {}
    /\ lastUpsert.result = "ok"

\* C28: once every upsert sent by the toggles has been applied, the user's
\* stored user_settings row holds the six flags the page displays, in
\* whichever order the upserts were applied
C28_StoredEqualsDisplayed ==
    SettingsQuiet =>
        \A r \in SettingsRows(settingsUserId) : r.values = settings


(* Claims about the 'Add Event' form *)

\* C29: an event inserted by handleAddEvent with a type other than
\* 'Meeting' is stored with meeting_link null, whatever was typed into the
\* form before its type was chosen
C29_LinkOnlyForMeetings ==
    [][\A e \in calendar_events' \ calendar_events :
            e.event_type # "Meeting" => e.meeting_link = NullLink]_vars


\* C30: the event_date of the row handleAddEvent inserts is the calendar
\* date, in the client's zone, of the day cell that was selected, at every
\* UTC offset of the client
C30_StoredLocalDate ==
    [][\A e \in calendar_events' \ calendar_events :
        \A month \in Months, day \in MonthDays :
            NewDate(month, day) = addEvent.selected =>
                e.event_date = DayNumber(month, day)]_vars

=============================================================================
